---- MODULE Spec2Model ----
(***************************************************************************)
(* LingoPop: a model of the lookup / notebook / speech-cache flow.         *)
(*                                                                         *)
(*   src/components/LanguageSelector.tsx  lines 33-796: the App component  *)
(*   src/services/geminiService.ts        lookupWord, generateConceptImage,*)
(*                                        generateSpeech and its ttsCache  *)
(*   src/unnamed/part_000                 audio utilities and the types    *)
(*                                                                         *)
(* The App is a React function component.  An event handler runs to its    *)
(* end (or to its first await on a remote call) as one step, together with *)
(* the re-render and the effects that the state change schedules.  The     *)
(* continuation of an async handler after a remote call is a step of its   *)
(* own; it works on the values its closure captured when the handler was   *)
(* called.  A continuation after an await on an already settled promise    *)
(* runs in the same step as the code before it (microtask).                *)
(*                                                                         *)
(* The effect on [notebook] writes localStorage synchronously and is part  *)
(* of the step that changes the notebook.  The effect on [currentEntry]    *)
(* starts a remote speech request; React runs it after the render, before  *)
(* it handles any other event, and it is the step PrefetchEffect.          *)
(*                                                                         *)
(* Eight specifications share the definitions:                             *)
(*   Spec        the lookup, navigation and notebook flow of the App       *)
(*   SpecAudio   the audio flow of the App: lookups that display entries,  *)
(*               the pre-fetch effect, playAudio and the speech requests   *)
(*   SpecSpeech  the speech service alone, called with any text            *)
(*   SpecStory   the story flow over a stored notebook: word selection,    *)
(*               story generation and lookups of words of the story,       *)
(*               which may overlap                                         *)
(*   SpecChat    the lookup flow with the chat about the displayed entry   *)
(*   SpecSelect  the word selection of the story view over a stored        *)
(*               notebook of more words than a story takes                 *)
(*   SpecCards   the lookup and notebook flow with the flashcards          *)
(*   SpecDecode  decodeAudioData alone, called with any payload            *)
(* The speech state is written by the audio steps only and the notebook    *)
(* by the notebook steps only; Spec leaves the audio steps out and         *)
(* SpecAudio the notebook steps.                                           *)
(***************************************************************************)
EXTENDS Integers, Sequences, FiniteSets, Bags, TLC

VARIABLES
    view,           \* useState<AppView>
    history,        \* useState<AppView[]>, the navigation stack
    searchQuery,    \* useState('')
    loading,        \* useState(false)
    currentEntry,   \* useState<DictionaryEntry | null>
    notebook,       \* useState<DictionaryEntry[]>
    chatHistory,    \* useState<ChatMessage[]>
    isChatOpen,     \* useState(false)
    chatInput,      \* useState('')
    chats,          \* handleChatSend calls suspended at sendChatMessage (a bag)
    story,          \* useState<string | null>
    isStoryLoading, \* useState(false)
    selectedStoryWordIds, \* useState<string[]>
    stories,        \* handleGenerateSelectedStory calls suspended at generateStory (a bag)
    audioLoadingId, \* useState<string | null>
    storage,        \* window.localStorage
    lookups,        \* performLookup calls suspended at an await (a bag)
    play,           \* the playAudio call suspended at an await, if any
    ttsCache,       \* geminiService.ts: const ttsCache = new Map()
    ttsPending,     \* generateSpeech calls suspended at the remote call (a bag)
    ttsRequested,   \* texts for which a remote speech request was ever issued
    now,            \* the reading of Date.now()
    inserted,       \* history: the ids addToNotebook was called with while
                    \* the notebook had no entry of that id, in call order
    flashcardIndex, \* useState(0)
    isFlipped,      \* useState(false)
    data,           \* decodeAudioData: the bytes it is called with
    numChannels,    \* decodeAudioData: its numChannels parameter
    audioBuffer,    \* decodeAudioData: how the call ended and what it returned
    obs             \* what the last step did: alerts, effects scheduled, speech call

vars == <<view, history, searchQuery, loading, currentEntry, notebook,
          chatHistory, isChatOpen, chatInput, chats, story, isStoryLoading,
          selectedStoryWordIds, stories, audioLoadingId, storage, lookups,
          play, ttsCache, ttsPending, ttsRequested, now, inserted,
          flashcardIndex, isFlipped, data, numChannels, audioBuffer, obs>>

\* the flashcard shown and its side
cardVars == <<flashcardIndex, isFlipped>>

\* the call of decodeAudioData
decodeVars == <<data, numChannels, audioBuffer>>

(***************************************************************************)
(* Bounds                                                                  *)
(***************************************************************************)
MaxClock == 1       \* Date.now() takes the values 0..MaxClock
MaxHistory == 2     \* longest navigation stack explored
MaxLookups == 2     \* performLookup calls in flight at once
MaxSpeech == 2      \* generateSpeech remote requests in flight at once
MaxChat == 4        \* longest chat log explored
MaxBytes == 6       \* longest audio payload decoded, in bytes
MaxChannels == 2    \* largest numChannels decoded

(***************************************************************************)
(* JavaScript values                                                       *)
(***************************************************************************)
\* the value of a property that is missing or undefined
Missing == "<undefined>"

\* null results of generateSpeech
Null == "<null>"

\* truthiness of a string-or-undefined value
Truthy(x) == x \notin {Missing, Null, ""}

\* a || d
OrElse(x, d) == IF Truthy(x) THEN x ELSE d

\* o.k, read the way JavaScript reads a property: undefined when absent
Get(o, k) == IF k \in DOMAIN o THEN o[k] ELSE Missing

\* String.prototype.trim on the terms the model uses
trim(s) == CASE s = " " -> ""
             [] s = " brick" -> "brick"
             [] s = "muro " -> "muro"
             [] OTHER -> s

\* AppView
ONBOARDING == "ONBOARDING"
SEARCH == "SEARCH"
RESULT == "RESULT"
NOTEBOOK == "NOTEBOOK"
STORY == "STORY"
FLASHCARDS == "FLASHCARDS"

nativeLang == "en"
targetLang == "es"

\* currentEntry === null
NoEntry == [null |-> TRUE]

\* no playAudio call is suspended
NoPlay == [pc |-> "idle"]

\* audioLoadingId === null
NoAudio == Null

(***************************************************************************)
(* The remote text step: ai.models.generateContent and lookupWord          *)
(***************************************************************************)
\* the terms a user types into the search input; " " is a blank query
Queries == {" ", "brick"}

\* a JSON object that follows the prompt: 2 examples, 3 scenario lines
FullData ==
    [translatedTerm |-> "ladrillo",
     definitionTarget |-> "bloque de arcilla",
     definitionNative |-> "block of clay",
     examples |-> <<[target |-> "un ladrillo rojo", native |-> "a red brick"],
                    [target |-> "el muro de ladrillo", native |-> "the brick wall"]>>,
     scenario |-> <<[speaker |-> "A", text |-> "un ladrillo rojo", translation |-> "a red brick"],
                    [speaker |-> "B", text |-> "el muro de ladrillo", translation |-> "the brick wall"],
                    [speaker |-> "A", text |-> "un ladrillo rojo", translation |-> "a red brick"]>>,
     usageNote |-> "everyday word"]

\* a JSON object with one example, an empty definition and nothing else:
\* the responseSchema marks no property as required
SparseData ==
    [definitionNative |-> "",
     examples |-> <<[target |-> "un ladrillo rojo", native |-> "a red brick"]>>]

\* the JSON documents the model can answer with, by the token that stands
\* for their text
JsonObjects == [full |-> FullData, sparse |-> SparseData]

\* response.text is a sequence of tokens: a markdown fence, white space,
\* the text of a JSON object, the JSON literal null, or other text;
\* <fence> stands for the three backquotes of a markdown code fence
Fences == {"<fence>json", "<fence>"}

\* the outcomes of the request of lookupWord: it rejects, or it resolves
\* with a response whose text is one of these
TextResponses ==
    { [ok |-> FALSE, text |-> <<>>],
      [ok |-> TRUE, text |-> <<>>],
      [ok |-> TRUE, text |-> <<"Sorry, I cannot help.">>],
      [ok |-> TRUE, text |-> <<"null">>],
      [ok |-> TRUE, text |-> <<"<fence>json", " ", "full", " ", "<fence>">>],
      [ok |-> TRUE, text |-> <<"sparse">>] }

\* text.replace(/<fence>json|<fence>/g, ''), <fence> being three backquotes
RECURSIVE stripFences(_)
stripFences(text) ==
    IF text = <<>> THEN <<>>
    ELSE IF Head(text) \in Fences THEN stripFences(Tail(text))
    ELSE <<Head(text)>> \o stripFences(Tail(text))

\* String.prototype.trim on a token sequence
RECURSIVE trimTokens(_)
trimTokens(text) ==
    IF text = <<>> THEN <<>>
    ELSE IF Head(text) = " " THEN trimTokens(Tail(text))
    ELSE IF text[Len(text)] = " " THEN trimTokens(SubSeq(text, 1, Len(text) - 1))
    ELSE text

cleanJsonText(text) == trimTokens(stripFences(text))

\* JSON.parse: [threw, isNull, value]
JSONparse(text) ==
    IF Len(text) = 1 /\ text[1] \in DOMAIN JsonObjects
    THEN [threw |-> FALSE, isNull |-> FALSE, value |-> JsonObjects[text[1]]]
    ELSE IF text = <<"null">>
    THEN [threw |-> FALSE, isNull |-> TRUE, value |-> <<>>]
    ELSE [threw |-> TRUE, isNull |-> FALSE, value |-> <<>>]

\* lookupWord with a catch block that answers an empty object instead of
\* throwing "Invalid response format"
lookupWordLenient(response) ==
    IF ~response.ok
    THEN [threw |-> TRUE, isNull |-> FALSE, value |-> <<>>]
    ELSE IF response.text = <<>>
    THEN [threw |-> TRUE, isNull |-> FALSE, value |-> <<>>]
    ELSE LET parsed == JSONparse(cleanJsonText(response.text))
         IN IF parsed.threw
            THEN [threw |-> FALSE, isNull |-> FALSE, value |-> <<>>]
            ELSE parsed

\* lookupWord, from the response on: [threw, isNull, value]
lookupWord(response) ==
    IF ~response.ok
    THEN [threw |-> TRUE, isNull |-> FALSE, value |-> <<>>]    \* the await rejects
    ELSE IF response.text = <<>>
    THEN [threw |-> TRUE, isNull |-> FALSE, value |-> <<>>]    \* "No text response"
    ELSE JSONparse(cleanJsonText(response.text))               \* or "Invalid response format"

(***************************************************************************)
(* The remote image step: generateConceptImage                             *)
(***************************************************************************)
\* the request rejects, or resolves with parts that may hold inline data
ImageResponses ==
    { [ok |-> FALSE, parts |-> <<>>],
      [ok |-> TRUE, parts |-> <<>>],
      [ok |-> TRUE, parts |-> <<[text |-> "here it is"],
                                [inlineData |-> "image/png;base64,AAAA"]>>] }

\* generateConceptImage without its try/catch: a rejected request is an
\* exception of performLookup
generateConceptImageNoCatch(response) ==
    IF ~response.ok
    THEN [threw |-> TRUE, value |-> Missing]
    ELSE LET hits == {i \in 1..Len(response.parts) :
                         Truthy(Get(response.parts[i], "inlineData"))}
         IN IF hits = {} THEN [threw |-> FALSE, value |-> Missing]
            ELSE LET first == CHOOSE i \in hits : \A j \in hits : i <= j
                 IN [threw |-> FALSE,
                     value |-> "data:" \o response.parts[first].inlineData]

\* generateConceptImage, from the response on: the first part with
\* inlineData as a data URL, undefined otherwise; [threw, value]
generateConceptImage(response) ==
    IF ~response.ok
    THEN [threw |-> FALSE, value |-> Missing]          \* catch (e): fail gracefully
    ELSE LET hits == {i \in 1..Len(response.parts) :
                         Truthy(Get(response.parts[i], "inlineData"))}
         IN IF hits = {} THEN [threw |-> FALSE, value |-> Missing]
            ELSE LET first == CHOOSE i \in hits : \A j \in hits : i <= j
                 IN [threw |-> FALSE,
                     value |-> "data:" \o response.parts[first].inlineData]

(***************************************************************************)
(* performLookup: assembling the entry                                     *)
(***************************************************************************)
\* textData.examples || []  (an array, even an empty one, is truthy)
ListOrEmpty(o, k) == IF k \in DOMAIN o THEN o[k] ELSE <<>>

\* the newEntry object literal with ?? in place of ||: only a missing
\* field gets its default, an empty string is kept
AssembleEntryNullish(term, textData, imageUrl, t) ==
    LET Default(k, d) == IF k \in DOMAIN textData THEN textData[k] ELSE d
    IN [id |-> ToString(t),
        term |-> term,
        translatedTerm |-> Default("translatedTerm", term),
        definitionTarget |-> Default("definitionTarget", "Definition not found"),
        definitionNative |-> Default("definitionNative", "Definition not found"),
        examples |-> ListOrEmpty(textData, "examples"),
        scenario |-> ListOrEmpty(textData, "scenario"),
        usageNote |-> Default("usageNote", "No usage note available."),
        imageUrl |-> imageUrl,
        sourceLang |-> nativeLang,
        targetLang |-> targetLang,
        createdAt |-> t]

\* the newEntry object literal; t is the reading of Date.now()
AssembleEntry(term, textData, imageUrl, t) ==
    [id |-> ToString(t),
     term |-> term,
     translatedTerm |-> OrElse(Get(textData, "translatedTerm"), term),
     definitionTarget |-> OrElse(Get(textData, "definitionTarget"), "Definition not found"),
     definitionNative |-> OrElse(Get(textData, "definitionNative"), "Definition not found"),
     examples |-> ListOrEmpty(textData, "examples"),
     scenario |-> ListOrEmpty(textData, "scenario"),
     usageNote |-> OrElse(Get(textData, "usageNote"), "No usage note available."),
     imageUrl |-> imageUrl,
     sourceLang |-> nativeLang,
     targetLang |-> targetLang,
     createdAt |-> t]

(***************************************************************************)
(* Navigation                                                              *)
(***************************************************************************)
\* navigateTo called from a closure that read `captured` as the view:
\* setHistory(prev => [...prev, view]) works on the latest stack
navigateTo(newView, captured, current, stack) ==
    IF newView = captured
    THEN [view |-> current, history |-> stack]
    ELSE [view |-> newView, history |-> Append(stack, captured)]

goBackResult(current, stack) ==
    IF Len(stack) = 0
    THEN [view |-> IF current # SEARCH /\ current # ONBOARDING THEN SEARCH ELSE current,
          history |-> stack]
    ELSE [view |-> stack[Len(stack)],
          history |-> SubSeq(stack, 1, Len(stack) - 1)]

(***************************************************************************)
(* The notebook and its persistence                                        *)
(***************************************************************************)
StorageKey == "lingopop_notebook"

\* notebook.find(n => n.id === entry.id) is truthy
InNotebook(book, entry) == \E i \in 1..Len(book) : book[i].id = entry.id

\* a variant that leaves out the find() test
addToNotebookUnchecked(entry, book) ==
    IF entry # NoEntry THEN <<entry>> \o book ELSE book

\* a variant that puts the new entry last
addToNotebookAtEnd(entry, book) ==
    IF entry # NoEntry /\ ~InNotebook(book, entry)
    THEN book \o <<entry>>
    ELSE book

\* a variant that keeps only the newest entry
addToNotebookKeepNewest(entry, book) ==
    IF entry # NoEntry /\ ~InNotebook(book, entry)
    THEN <<entry>>
    ELSE book

\* the notebook that addToNotebook leaves
addToNotebookResult(entry, book) ==
    IF entry # NoEntry /\ ~InNotebook(book, entry)
    THEN <<entry>> \o book
    ELSE book

\* the properties of an entry, in the order of the object literal
EntryKeys == <<"id", "term", "translatedTerm", "definitionTarget",
               "definitionNative", "examples", "scenario", "usageNote",
               "imageUrl", "sourceLang", "targetLang", "createdAt">>

\* the properties JSON.stringify leaves out: those whose value is undefined
\* (imageUrl is the only property the code ever sets to undefined)
undefinedKeys(e) == {k \in DOMAIN e \cap {"imageUrl"} : e[k] = Missing}

\* JSON.stringify of one entry: its "key": value members, in order
RECURSIVE stringifyMembers(_, _)
stringifyMembers(e, keys) ==
    IF keys = <<>> THEN <<>>
    ELSE IF Head(keys) \in DOMAIN e \ undefinedKeys(e)
    THEN <<(<<Head(keys), e[Head(keys)]>>)>> \o stringifyMembers(e, Tail(keys))
    ELSE stringifyMembers(e, Tail(keys))

\* JSON.stringify(notebook): the JSON text, as the members of each object
JSONstringify(book) ==
    [i \in 1..Len(book) |-> stringifyMembers(book[i], EntryKeys)]

\* JSON.parse of one object of the text
parseObject(members) ==
    [k \in {members[i][1] : i \in 1..Len(members)} |->
        members[CHOOSE i \in 1..Len(members) : members[i][1] = k][2]]

\* JSON.parse(saved)
JSONparseNotebook(text) ==
    [i \in 1..Len(text) |-> parseObject(text[i])]

\* localStorage.setItem(key, value)
setItem(store, key, value) ==
    [k \in DOMAIN store \cup {key} |-> IF k = key THEN value ELSE store[k]]

\* a variant that appends the newest entry to the stored text instead of
\* writing the whole notebook
persistEffectAppendLog(store, book) ==
    IF book = <<>> \/ StorageKey \notin DOMAIN store
    THEN setItem(store, StorageKey, JSONstringify(book))
    ELSE setItem(store, StorageKey,
                 store[StorageKey] \o JSONstringify(<<book[1]>>))

\* the effect on [notebook]
persistEffect(store, book) == setItem(store, StorageKey, JSONstringify(book))

\* the initial state of notebook: saved ? JSON.parse(saved) : []
initialNotebook(store) ==
    IF StorageKey \in DOMAIN store
    THEN JSONparseNotebook(store[StorageKey])
    ELSE <<>>

(***************************************************************************)
(* generateSpeech and the ttsCache                                         *)
(***************************************************************************)
\* the value of candidates?.[0]?.content?.parts?.[0]?.inlineData?.data in a
\* response, when the request does not reject
TtsResponses ==
    { [ok |-> FALSE, data |-> Missing],
      [ok |-> TRUE, data |-> Missing],
      [ok |-> TRUE, data |-> "UklGRg"],
      [ok |-> TRUE, data |-> "AAEC"] }

\* ttsCache.set(text, data)
cacheSet(cache, text, value) ==
    [t \in DOMAIN cache \cup {text} |-> IF t = text THEN value ELSE cache[t]]

\* generateSpeech without the ttsCache.has(text) test: every non-empty text
\* goes to the remote service
generateSpeechCallNoCache(text, cache) ==
    IF text = ""
    THEN [suspends |-> FALSE, ret |-> Null, readsCache |-> FALSE]
    ELSE [suspends |-> TRUE, ret |-> Null, readsCache |-> FALSE]

\* generateSpeech with `ttsCache.get(text) || null` read under the wrong
\* key: a hit returns null
generateSpeechCallHitNull(text, cache) ==
    IF text = ""
    THEN [suspends |-> FALSE, ret |-> Null, readsCache |-> FALSE]
    ELSE IF text \in DOMAIN cache
    THEN [suspends |-> FALSE, ret |-> Null, readsCache |-> TRUE]
    ELSE [suspends |-> TRUE, ret |-> Null, readsCache |-> TRUE]

\* generateSpeech without its `if (!text) return null`
generateSpeechCallNoGuard(text, cache) ==
    IF text \in DOMAIN cache
    THEN [suspends |-> FALSE, ret |-> cache[text], readsCache |-> TRUE]
    ELSE [suspends |-> TRUE, ret |-> Null, readsCache |-> TRUE]

\* generateSpeech up to its await: it returns at once (empty text, cache
\* hit) or issues the remote request and suspends
generateSpeechCall(text, cache) ==
    IF text = ""
    THEN [suspends |-> FALSE, ret |-> Null, readsCache |-> FALSE]
    ELSE IF text \in DOMAIN cache
    THEN [suspends |-> FALSE, ret |-> cache[text], readsCache |-> TRUE]
    ELSE [suspends |-> TRUE, ret |-> Null, readsCache |-> TRUE]

\* generateSpeech without its try/catch: a rejected request is an exception
\* of the caller
generateSpeechResumeNoCatch(text, cache, response) ==
    IF ~response.ok
    THEN [ret |-> Null, threw |-> TRUE, cache |-> cache]
    ELSE IF Truthy(response.data)
    THEN [ret |-> response.data, threw |-> FALSE,
          cache |-> cacheSet(cache, text, response.data)]
    ELSE [ret |-> Null, threw |-> FALSE, cache |-> cache]

\* generateSpeech from its await on: the value returned and the cache left
generateSpeechResume(text, cache, response) ==
    IF ~response.ok
    THEN [ret |-> Null, threw |-> FALSE, cache |-> cache]         \* catch (e)
    ELSE IF Truthy(response.data)
    THEN [ret |-> response.data, threw |-> FALSE,
          cache |-> cacheSet(cache, text, response.data)]
    ELSE [ret |-> Null, threw |-> FALSE, cache |-> cache]

(***************************************************************************)
(* What a step did                                                         *)
(***************************************************************************)
NoSpeech == [phase |-> "none"]

\* a step of `act` that raised no alert, wrote no localStorage, scheduled no
\* effect on [currentEntry], ran no part of generateSpeech and ended no
\* playBase64Audio
Quiet(act) ==
    [act |-> act, alerts |-> 0, stored |-> FALSE, prefetchDue |-> FALSE,
     speech |-> NoSpeech, playback |-> "none"]

\* a step of the user interface that no property singles out
Other == "-"

\* generateSpeech(text) ran up to its return or its await
SpeechCalled(text, call) ==
    [phase |-> "call", text |-> text, suspends |-> call.suspends,
     ret |-> call.ret, threw |-> FALSE, readsCache |-> call.readsCache]

\* generateSpeech(text) ran from its await, which `response` settled, to
\* its return
SpeechResumed(text, res, response) ==
    [phase |-> "resume", text |-> text, suspends |-> FALSE,
     ret |-> res.ret, threw |-> res.threw, readsCache |-> FALSE,
     response |-> response]

(***************************************************************************)
(* Initial state: first start, after the first render and its effects      *)
(***************************************************************************)
\* decodeAudioData has not settled
NoBuffer == [by |-> "none", error |-> "", numberOfChannels |-> 0,
             length |-> 0, channelData |-> <<>>]

Init ==
    /\ view = ONBOARDING
    /\ history = <<>>
    /\ searchQuery = ""
    /\ loading = FALSE
    /\ currentEntry = NoEntry
    /\ notebook = <<>>
    /\ chatHistory = <<>>
    /\ isChatOpen = FALSE
    /\ chatInput = ""
    /\ chats = EmptyBag
    /\ story = Null
    /\ isStoryLoading = FALSE
    /\ selectedStoryWordIds = <<>>
    /\ stories = EmptyBag
    /\ audioLoadingId = NoAudio
    /\ storage = [lingopop_notebook |-> JSONstringify(<<>>)]
    /\ lookups = EmptyBag
    /\ play = NoPlay
    /\ ttsCache = <<>>
    /\ ttsPending = EmptyBag
    /\ ttsRequested = {}
    /\ now = 0
    /\ inserted = <<>>
    /\ flashcardIndex = 0
    /\ isFlipped = FALSE
    /\ data = <<>>
    /\ numChannels = 1
    /\ audioBuffer = NoBuffer
    /\ obs = Quiet("init")

\* the bag b with one copy of x added / removed
BagAdd(b, x) == b (+) SetToBag({x})
BagRemove(b, x) == b (-) SetToBag({x})

speechVars == <<ttsCache, ttsPending, ttsRequested>>

\* the chat input and the chat requests in flight
chatVars == <<chatInput, chats>>

\* the state of the story view and the story requests in flight
storyVars == <<story, isStoryLoading, selectedStoryWordIds, stories>>

(***************************************************************************)
(* Navigation handlers                                                     *)
(***************************************************************************)
\* the onboarding button: setView(AppView.SEARCH)
LetsGo ==
    /\ view = ONBOARDING
    /\ view' = SEARCH
    /\ obs' = Quiet(Other)
    /\ UNCHANGED <<cardVars, decodeVars, chatVars, storyVars, history, searchQuery, loading, currentEntry, notebook,
                   chatHistory, isChatOpen, audioLoadingId, storage, lookups,
                   play, speechVars, now, inserted>>

\* the Notebook button of the search view: navigateTo(AppView.NOTEBOOK)
OpenNotebook ==
    /\ view = SEARCH
    /\ Len(history) < MaxHistory
    /\ LET nav == navigateTo(NOTEBOOK, view, view, history)
       IN /\ view' = nav.view
          /\ history' = nav.history
    /\ obs' = Quiet(Other)
    /\ UNCHANGED <<cardVars, decodeVars, chatVars, storyVars, searchQuery, loading, currentEntry, notebook, chatHistory,
                   isChatOpen, audioLoadingId, storage, lookups, play,
                   speechVars, now, inserted>>

\* a card of the notebook view: setCurrentEntry(entry); navigateTo(RESULT)
OpenEntry(i) ==
    /\ view = NOTEBOOK
    /\ i \in 1..Len(notebook)
    /\ Len(history) < MaxHistory
    /\ currentEntry' = notebook[i]
    /\ LET nav == navigateTo(RESULT, view, view, history)
       IN /\ view' = nav.view
          /\ history' = nav.history
    /\ obs' = [Quiet("OpenEntry") EXCEPT !.prefetchDue = (notebook[i] # currentEntry)]
    /\ UNCHANGED <<cardVars, decodeVars, chatVars, storyVars, searchQuery, loading, notebook, chatHistory, isChatOpen,
                   audioLoadingId, storage, lookups, play, speechVars, now, inserted>>

\* the back button of the header, shown unless at the root of the search view
GoBack ==
    /\ view # ONBOARDING
    /\ Len(history) > 0 \/ view # SEARCH
    /\ LET back == goBackResult(view, history)
       IN /\ view' = back.view
          /\ history' = back.history
    /\ obs' = Quiet(Other)
    /\ UNCHANGED <<cardVars, decodeVars, chatVars, storyVars, searchQuery, loading, currentEntry, notebook, chatHistory,
                   isChatOpen, audioLoadingId, storage, lookups, play,
                   speechVars, now, inserted>>

\* the home button of the header: setHistory([]); setView(AppView.SEARCH)
GoHome ==
    /\ view \notin {ONBOARDING, SEARCH}
    /\ history' = <<>>
    /\ view' = SEARCH
    /\ obs' = Quiet(Other)
    /\ UNCHANGED <<cardVars, decodeVars, chatVars, storyVars, searchQuery, loading, currentEntry, notebook, chatHistory,
                   isChatOpen, audioLoadingId, storage, lookups, play,
                   speechVars, now, inserted>>

(***************************************************************************)
(* performLookup                                                           *)
(***************************************************************************)
\* the input of the search view: setSearchQuery(e.target.value)
TypeQuery(q) ==
    /\ view = SEARCH
    /\ q # searchQuery
    /\ searchQuery' = q
    /\ obs' = Quiet(Other)
    /\ UNCHANGED <<cardVars, decodeVars, chatVars, storyVars, view, history, loading, currentEntry, notebook, chatHistory,
                   isChatOpen, audioLoadingId, storage, lookups, play,
                   speechVars, now, inserted>>

\* the suspended performLookup calls, each marked as one that a later call
\* has followed (stale is history: the code keeps no such mark)
Supersede(pending) ==
    LET Old(x) == [x EXCEPT !.stale = TRUE]
        Fresh(x) == [x EXCEPT !.stale = FALSE]
    IN [y \in {Old(x) : x \in BagToSet(pending)} |->
           CopiesIn(y, pending) + CopiesIn(Fresh(y), pending)]

\* performLookup that starts lookupWord and generateConceptImage together
\* (Promise.all) instead of one after the other
performLookupCallParallel(act, term) ==
    IF trim(term) = ""
    THEN /\ obs' = Quiet(act)
         /\ UNCHANGED <<cardVars, decodeVars, chatVars, storyVars, view, history, searchQuery,
                        loading, currentEntry, notebook, chatHistory,
                        isChatOpen, audioLoadingId, storage, lookups, play,
                        speechVars, now, inserted>>
    ELSE /\ BagCardinality(lookups) < MaxLookups - 1
         /\ loading' = TRUE
         /\ isChatOpen' = FALSE
         /\ chatHistory' = <<>>
         /\ searchQuery' = term
         /\ lookups' = BagAdd(BagAdd(Supersede(lookups),
                                     [pc |-> "text", term |-> term, view |-> view,
                                      textData |-> <<>>, stale |-> FALSE]),
                              [pc |-> "image", term |-> term, view |-> view,
                               textData |-> <<>>, stale |-> FALSE])
         /\ obs' = Quiet(act)
         /\ UNCHANGED <<cardVars, decodeVars, chatVars, storyVars, view, history, currentEntry,
                        notebook, audioLoadingId, storage, play, speechVars,
                        now, inserted>>

\* performLookup without its `if (!term.trim()) return`
performLookupCallNoGuard(act, term) ==
    /\ BagCardinality(lookups) < MaxLookups
    /\ loading' = TRUE
    /\ isChatOpen' = FALSE
    /\ chatHistory' = <<>>
    /\ searchQuery' = term
    /\ lookups' = BagAdd(Supersede(lookups),
                         [pc |-> "text", term |-> term, view |-> view,
                          textData |-> <<>>, stale |-> FALSE])
    /\ obs' = Quiet(act)
    /\ UNCHANGED <<cardVars, decodeVars, chatVars, storyVars, view, history, currentEntry,
                   notebook, audioLoadingId, storage, play, speechVars,
                   now, inserted>>

\* performLookup without its setChatHistory([])
performLookupCallKeepChat(act, term) ==
    IF trim(term) = ""
    THEN /\ obs' = Quiet(act)
         /\ UNCHANGED <<cardVars, decodeVars, chatVars, storyVars, view, history, searchQuery,
                        loading, currentEntry, notebook, chatHistory,
                        isChatOpen, audioLoadingId, storage, lookups, play,
                        speechVars, now, inserted>>
    ELSE /\ BagCardinality(lookups) < MaxLookups
         /\ loading' = TRUE
         /\ isChatOpen' = FALSE
         /\ searchQuery' = term
         /\ lookups' = BagAdd(Supersede(lookups),
                              [pc |-> "text", term |-> term, view |-> view,
                               textData |-> <<>>, stale |-> FALSE])
         /\ obs' = Quiet(act)
         /\ UNCHANGED <<cardVars, decodeVars, chatVars, storyVars, view, history, currentEntry,
                        notebook, chatHistory, audioLoadingId, storage, play,
                        speechVars, now, inserted>>

\* performLookup(term) up to its first await: a blank term returns at once,
\* any other term sets the lookup state and issues the text request
performLookupCall(act, term) ==
    IF trim(term) = ""
    THEN /\ obs' = Quiet(act)
         /\ UNCHANGED <<cardVars, decodeVars, chatVars, storyVars, view, history, searchQuery,
                        loading, currentEntry, notebook, chatHistory,
                        isChatOpen, audioLoadingId, storage, lookups, play,
                        speechVars, now, inserted>>
    ELSE /\ BagCardinality(lookups) < MaxLookups
         /\ loading' = TRUE
         /\ isChatOpen' = FALSE
         /\ chatHistory' = <<>>
         /\ searchQuery' = term
         /\ lookups' = BagAdd(Supersede(lookups),
                              [pc |-> "text", term |-> term, view |-> view,
                               textData |-> <<>>, stale |-> FALSE])
         /\ obs' = Quiet(act)
         /\ UNCHANGED <<cardVars, decodeVars, chatVars, storyVars, view, history, currentEntry,
                        notebook, audioLoadingId, storage, play, speechVars,
                        now, inserted>>

\* the search form; its submit button is disabled while loading
handleSearchSubmit ==
    /\ view = SEARCH
    /\ ~loading
    /\ performLookupCall("handleSearchSubmit", searchQuery)

\* the text request of a lookup settles: lookupWord throws, or returns the
\* parsed object and the image request is issued
TextResponse(l, response) ==
    /\ BagIn(l, lookups)
    /\ l.pc = "text"
    /\ LET r == lookupWord(response)
       IN IF r.threw \/ r.isNull      \* null.translatedTerm is a TypeError
          THEN /\ lookups' = BagRemove(lookups, l)
               /\ loading' = FALSE
               /\ obs' = [Quiet("TextResponse") EXCEPT !.alerts = 1]
          ELSE /\ lookups' = BagAdd(BagRemove(lookups, l),
                                    [l EXCEPT !.pc = "image", !.textData = r.value])
               /\ obs' = Quiet("TextResponse")
               /\ UNCHANGED loading
    /\ UNCHANGED <<cardVars, decodeVars, chatVars, storyVars, view, history, searchQuery, currentEntry, notebook,
                   chatHistory, isChatOpen, audioLoadingId, storage, play,
                   speechVars, now, inserted>>

\* the image request of a lookup settles: the entry is assembled and shown
\* (a rejection of generateConceptImage would end in the catch block)
ImageResponse(l, response) ==
    /\ BagIn(l, lookups)
    /\ l.pc = "image"
    /\ LET image == generateConceptImage(response)
           newEntry == AssembleEntry(l.term, l.textData, image.value, now)
           nav == navigateTo(RESULT, l.view, view, history)
       IN IF image.threw
          THEN /\ obs' = [Quiet("ImageResponse") EXCEPT !.alerts = 1]
               /\ UNCHANGED <<currentEntry, view, history>>
          ELSE /\ Len(nav.history) <= MaxHistory
               /\ currentEntry' = newEntry
               /\ view' = nav.view
               /\ history' = nav.history
               /\ obs' = [Quiet("ImageResponse") EXCEPT !.prefetchDue = TRUE]
    /\ lookups' = BagRemove(lookups, l)
    /\ loading' = FALSE
    /\ UNCHANGED <<cardVars, decodeVars, chatVars, storyVars, searchQuery, notebook, chatHistory, isChatOpen,
                   audioLoadingId, storage, play, speechVars, now, inserted>>

(***************************************************************************)
(* The notebook                                                            *)
(***************************************************************************)
\* the + button of the displayed entry; the effect on [notebook] runs when
\* setNotebook was called
addToNotebook ==
    /\ view = RESULT
    /\ ~loading
    /\ currentEntry # NoEntry
    /\ notebook' = addToNotebookResult(currentEntry, notebook)
    /\ storage' = IF notebook' # notebook
                  THEN persistEffect(storage, notebook')
                  ELSE storage
    /\ inserted' = IF InNotebook(notebook, currentEntry) THEN inserted
                    ELSE Append(inserted, currentEntry.id)
    /\ obs' = [Quiet("addToNotebook") EXCEPT !.stored = (notebook' # notebook)]
    /\ UNCHANGED <<cardVars, decodeVars, chatVars, storyVars, view, history, searchQuery, loading, currentEntry,
                   chatHistory, isChatOpen, audioLoadingId, lookups, play,
                   speechVars, now>>

\* the page is closed and opened again: module state and component state
\* start afresh, the notebook from localStorage; the effects of the first
\* render run
Reload ==
    /\ view' = ONBOARDING
    /\ history' = <<>>
    /\ searchQuery' = ""
    /\ loading' = FALSE
    /\ currentEntry' = NoEntry
    /\ notebook' = initialNotebook(storage)
    /\ chatHistory' = <<>>
    /\ isChatOpen' = FALSE
    /\ chatInput' = ""
    /\ chats' = EmptyBag
    /\ story' = Null
    /\ isStoryLoading' = FALSE
    /\ selectedStoryWordIds' = <<>>
    /\ stories' = EmptyBag
    /\ audioLoadingId' = NoAudio
    /\ storage' = persistEffect(storage, notebook')
    /\ lookups' = EmptyBag
    /\ play' = NoPlay
    /\ ttsCache' = <<>>
    /\ ttsPending' = EmptyBag
    /\ ttsRequested' = {}
    /\ obs' = [Quiet("Reload") EXCEPT !.stored = TRUE]
    /\ flashcardIndex' = 0
    /\ isFlipped' = FALSE
    /\ UNCHANGED <<decodeVars, now, inserted>>

\* time passes
Tick ==
    /\ now < MaxClock
    /\ now' = now + 1
    /\ obs' = Quiet(Other)
    /\ UNCHANGED <<cardVars, decodeVars, chatVars, storyVars, view, history, searchQuery, loading, currentEntry, notebook,
                   chatHistory, isChatOpen, audioLoadingId, storage, lookups,
                   play, speechVars, inserted>>

\* the records a suspended performLookup can be
LookupRecords == BagToSet(lookups)

Next ==
    \/ LetsGo
    \/ OpenNotebook
    \/ \E i \in 1..MaxClock + 1 : OpenEntry(i)
    \/ GoBack
    \/ GoHome
    \/ \E q \in Queries : TypeQuery(q)
    \/ handleSearchSubmit
    \/ \E l \in LookupRecords : \E r \in TextResponses : TextResponse(l, r)
    \/ \E l \in LookupRecords : \E r \in ImageResponses : ImageResponse(l, r)
    \/ addToNotebook
    \/ Reload
    \/ Tick

Spec == Init /\ [][Next]_vars

(***************************************************************************)
(* The effect on [currentEntry]: pre-fetch the audio of the main term      *)
(***************************************************************************)
\* the effect is due after a step that set a new current entry; it calls
\* generateSpeech(currentEntry.translatedTerm) when the term is truthy, and
\* a cache miss leaves a remote request in flight
PrefetchEffect ==
    /\ obs.prefetchDue
    /\ currentEntry # NoEntry
    /\ IF Truthy(currentEntry.translatedTerm)
       THEN LET text == currentEntry.translatedTerm
                call == generateSpeechCall(text, ttsCache)
            IN /\ call.suspends => BagCardinality(ttsPending) < MaxSpeech
               /\ ttsPending' = IF call.suspends
                                THEN BagAdd(ttsPending, [text |-> text, caller |-> "prefetch"])
                                ELSE ttsPending
               /\ ttsRequested' = IF call.suspends THEN ttsRequested \cup {text}
                                  ELSE ttsRequested
               /\ obs' = [Quiet("PrefetchEffect") EXCEPT !.speech = SpeechCalled(text, call)]
       ELSE /\ obs' = Quiet("PrefetchEffect")
            /\ UNCHANGED <<ttsPending, ttsRequested>>
    /\ UNCHANGED <<cardVars, decodeVars, chatVars, storyVars, view, history, searchQuery, loading, currentEntry, notebook,
                   chatHistory, isChatOpen, audioLoadingId, storage, lookups,
                   play, ttsCache, now, inserted>>

(***************************************************************************)
(* playAudio and the speech requests                                       *)
(***************************************************************************)
\* the speaker buttons of the displayed entry that the model presses: the
\* one of the main term and the one of the first example, as
\* <<text, uniqueId>>
SpeakerButtons(entry) ==
    {<<entry.translatedTerm, "main-" \o entry.id>>}
    \cup {<<Get(entry.examples[i], "target"),
            "example-" \o ToString(i - 1) \o "-" \o entry.id>> :
          i \in 1..Len(entry.examples) \cap {1}}

\* playAudio without its `if (audioLoadingId) return`
playAudioNoGuard(text, uniqueId) ==
    /\ view = RESULT
    /\ ~loading
    /\ currentEntry # NoEntry
    /\ <<text, uniqueId>> \in SpeakerButtons(currentEntry)
    /\ IF ~Truthy(text)
       THEN /\ obs' = Quiet("playAudio")
            /\ UNCHANGED <<audioLoadingId, play, ttsPending, ttsRequested>>
       ELSE LET call == generateSpeechCall(text, ttsCache)
            IN /\ call.suspends => BagCardinality(ttsPending) < MaxSpeech
               /\ audioLoadingId' = uniqueId
               /\ obs' = [Quiet("playAudio") EXCEPT !.speech = SpeechCalled(text, call)]
               /\ IF call.suspends
                  THEN /\ ttsPending' = BagAdd(ttsPending, [text |-> text, caller |-> "play"])
                       /\ ttsRequested' = ttsRequested \cup {text}
                       /\ play' = [pc |-> "speech"]
                  ELSE \* a cache hit: playBase64Audio(audioData) is awaited
                       /\ play' = [pc |-> "playback"]
                       /\ UNCHANGED <<ttsPending, ttsRequested>>
    /\ UNCHANGED <<cardVars, decodeVars, chatVars, storyVars, view, history, searchQuery, loading, currentEntry, notebook,
                   chatHistory, isChatOpen, storage, lookups, ttsCache, now, inserted>>

\* playAudio(text, uniqueId) up to its first await
playAudio(text, uniqueId) ==
    /\ view = RESULT
    /\ ~loading
    /\ currentEntry # NoEntry
    /\ <<text, uniqueId>> \in SpeakerButtons(currentEntry)
    /\ IF audioLoadingId # NoAudio \/ ~Truthy(text)
       THEN /\ obs' = Quiet("playAudio")
            /\ UNCHANGED <<audioLoadingId, play, ttsPending, ttsRequested>>
       ELSE LET call == generateSpeechCall(text, ttsCache)
            IN /\ call.suspends => BagCardinality(ttsPending) < MaxSpeech
               /\ audioLoadingId' = uniqueId
               /\ obs' = [Quiet("playAudio") EXCEPT !.speech = SpeechCalled(text, call)]
               /\ IF call.suspends
                  THEN /\ ttsPending' = BagAdd(ttsPending, [text |-> text, caller |-> "play"])
                       /\ ttsRequested' = ttsRequested \cup {text}
                       /\ play' = [pc |-> "speech"]
                  ELSE \* a cache hit: playBase64Audio(audioData) is awaited
                       /\ play' = [pc |-> "playback"]
                       /\ UNCHANGED <<ttsPending, ttsRequested>>
    /\ UNCHANGED <<cardVars, decodeVars, chatVars, storyVars, view, history, searchQuery, loading, currentEntry, notebook,
                   chatHistory, isChatOpen, storage, lookups, ttsCache, now, inserted>>

\* a remote speech request settles: generateSpeech returns to its caller;
\* playAudio goes on to play the audio, or to its finally block without
\* audio; the then() of the pre-fetch only logs
SpeechResponse(req, response) ==
    /\ BagIn(req, ttsPending)
    /\ response \in TtsResponses
    /\ LET res == generateSpeechResume(req.text, ttsCache, response)
       IN /\ ttsCache' = res.cache
          /\ ttsPending' = BagRemove(ttsPending, req)
          /\ obs' = [Quiet("SpeechResponse") EXCEPT !.speech = SpeechResumed(req.text, res, response)]
          /\ IF req.caller = "play"
             THEN IF Truthy(res.ret) /\ ~res.threw
                  THEN /\ play' = [pc |-> "playback"]
                       /\ UNCHANGED audioLoadingId
                  ELSE /\ play' = NoPlay
                       /\ audioLoadingId' = NoAudio
             ELSE UNCHANGED <<play, audioLoadingId>>
    /\ UNCHANGED <<cardVars, decodeVars, chatVars, storyVars, view, history, searchQuery, loading, currentEntry, notebook,
                   chatHistory, isChatOpen, storage, lookups, ttsRequested, now, inserted>>

\* what the await on audioPlayer.playBase64Audio ends with: the audio was
\* started, or resume, the decoding or start threw
PlaybackOutcomes == {"started", "threw"}

\* playAudio with setAudioLoadingId(null) at the end of its try block
\* instead of a finally block
PlaybackSettlesNoFinally ==
    /\ play = [pc |-> "playback"]
    /\ play' = NoPlay
    /\ \E outcome \in PlaybackOutcomes :
          /\ obs' = [Quiet("PlaybackSettles") EXCEPT !.playback = outcome]
          /\ audioLoadingId' = IF outcome = "threw" THEN audioLoadingId ELSE NoAudio
    /\ UNCHANGED <<cardVars, decodeVars, chatVars, storyVars, view, history, searchQuery, loading,
                   currentEntry, notebook, chatHistory, isChatOpen, storage,
                   lookups, speechVars, now, inserted>>

\* audioPlayer.playBase64Audio settles, having started the audio or thrown:
\* either way playAudio ends in its finally block
PlaybackSettles ==
    /\ play = [pc |-> "playback"]
    /\ play' = NoPlay
    /\ audioLoadingId' = NoAudio
    /\ \E outcome \in PlaybackOutcomes :
          obs' = [Quiet("PlaybackSettles") EXCEPT !.playback = outcome]
    /\ UNCHANGED <<cardVars, decodeVars, chatVars, storyVars, view, history, searchQuery, loading,
                   currentEntry, notebook, chatHistory, isChatOpen, storage,
                   lookups, speechVars, now, inserted>>

\* the audio flow: React runs a due effect before anything else
NextAudio ==
    \/ PrefetchEffect
    \/ /\ ~obs.prefetchDue
       /\ \/ LetsGo
          \/ GoBack
          \/ \E q \in Queries : TypeQuery(q)
          \/ handleSearchSubmit
          \/ \E l \in LookupRecords : \E r \in TextResponses : TextResponse(l, r)
          \/ \E l \in LookupRecords : \E r \in ImageResponses : ImageResponse(l, r)
          \/ \E b \in (IF currentEntry = NoEntry THEN {} ELSE SpeakerButtons(currentEntry)) :
                playAudio(b[1], b[2])
          \/ \E req \in BagToSet(ttsPending) : \E r \in TtsResponses : SpeechResponse(req, r)
          \/ PlaybackSettles

SpecAudio == Init /\ [][NextAudio]_vars

(***************************************************************************)
(* The speech service on its own: generateSpeech is an export of           *)
(* geminiService.ts and is called here with any text, the empty one too    *)
(***************************************************************************)
DirectTexts == {"", "hola", "adios"}

\* generateSpeech(text) called from outside the App, up to its await
SpeechCallDirect(text) ==
    LET call == generateSpeechCall(text, ttsCache)
    IN /\ call.suspends => BagCardinality(ttsPending) < MaxSpeech
       /\ ttsPending' = IF call.suspends
                        THEN BagAdd(ttsPending, [text |-> text, caller |-> "direct"])
                        ELSE ttsPending
       /\ ttsRequested' = IF call.suspends THEN ttsRequested \cup {text}
                          ELSE ttsRequested
       /\ obs' = [Quiet("SpeechCallDirect") EXCEPT !.speech = SpeechCalled(text, call)]
       /\ UNCHANGED <<cardVars, decodeVars, chatVars, storyVars, view, history, searchQuery, loading, currentEntry,
                      notebook, chatHistory, isChatOpen, audioLoadingId,
                      storage, lookups, play, ttsCache, now, inserted>>

NextSpeech ==
    \/ \E text \in DirectTexts : SpeechCallDirect(text)
    \/ \E req \in BagToSet(ttsPending) : \E r \in TtsResponses : SpeechResponse(req, r)

SpecSpeech == Init /\ [][NextSpeech]_vars

(***************************************************************************)
(* The story view: stories from notebook words, and lookups of the words   *)
(* of a story                                                              *)
(***************************************************************************)
\* the outcomes of the request of generateStory: it rejects, or resolves
\* with response.text
StoryResponses ==
    { [ok |-> FALSE, text |-> ""],
      [ok |-> TRUE, text |-> ""],
      [ok |-> TRUE, text |-> "El **muro** rojo."] }

\* generateStory, from the response on: [threw, value]
generateStory(response) ==
    IF ~response.ok
    THEN [threw |-> TRUE, value |-> Null]
    ELSE [threw |-> FALSE,
          value |-> OrElse(response.text, "Could not generate story.")]

\* what the model double-clicks in the displayed story: one of its words,
\* selected with the white space or the punctuation mark that follows it
Selections(text) ==
    IF text = "El **muro** rojo." THEN {"muro "} ELSE {"story."}

\* .replace(/[.,!?;:"'()]/g, '') on the selections the model uses
stripPunctuation(s) == CASE s = "story." -> "story"
                         [] s = "." -> ""
                         [] OTHER -> s

\* resetStory
resetStoryResult == [story |-> Null, selectedStoryWordIds |-> <<>>]

\* the AI Story Time button of the dashboard: resetStory(); navigateTo(STORY)
OpenStory ==
    /\ view = SEARCH
    /\ Len(history) < MaxHistory
    /\ story' = resetStoryResult.story
    /\ selectedStoryWordIds' = resetStoryResult.selectedStoryWordIds
    /\ view' = navigateTo(STORY, view, view, history).view
    /\ history' = navigateTo(STORY, view, view, history).history
    /\ obs' = Quiet("OpenStory")
    /\ UNCHANGED <<cardVars, decodeVars, chatVars, isStoryLoading, stories, searchQuery, loading,
                   currentEntry, notebook, chatHistory, isChatOpen,
                   audioLoadingId, storage, lookups, play, speechVars, now,
                   inserted>>

\* the Create New Story button under a story
resetStory ==
    /\ view = STORY
    /\ ~isStoryLoading
    /\ Truthy(story)
    /\ story' = resetStoryResult.story
    /\ selectedStoryWordIds' = resetStoryResult.selectedStoryWordIds
    /\ obs' = Quiet("resetStory")
    /\ UNCHANGED <<cardVars, decodeVars, chatVars, isStoryLoading, stories, view, history,
                   searchQuery, loading, currentEntry, notebook, chatHistory,
                   isChatOpen, audioLoadingId, storage, lookups, play,
                   speechVars, now, inserted>>

\* the word limit of a story
MaxStoryWords == 5

\* toggleStoryWordSelection with > in place of >= in its length test
toggleStoryWordSelectionOffByOne(id) ==
    /\ view = STORY
    /\ ~isStoryLoading
    /\ ~Truthy(story)
    /\ \E i \in 1..Len(notebook) : notebook[i].id = id
    /\ IF \E i \in 1..Len(selectedStoryWordIds) : selectedStoryWordIds[i] = id
       THEN /\ selectedStoryWordIds' = SelectSeq(selectedStoryWordIds, LAMBDA w : w # id)
            /\ obs' = Quiet("toggleStoryWordSelection")
       ELSE IF Len(selectedStoryWordIds) > MaxStoryWords
       THEN /\ obs' = [Quiet("toggleStoryWordSelection") EXCEPT !.alerts = 1]
            /\ UNCHANGED selectedStoryWordIds
       ELSE /\ selectedStoryWordIds' = Append(selectedStoryWordIds, id)
            /\ obs' = Quiet("toggleStoryWordSelection")
    /\ UNCHANGED <<cardVars, decodeVars, chatVars, story, isStoryLoading, stories, view, history,
                   searchQuery, loading, currentEntry, notebook, chatHistory,
                   isChatOpen, audioLoadingId, storage, lookups, play,
                   speechVars, now, inserted>>

\* a click on a notebook word in the selection mode of the story view
toggleStoryWordSelection(id) ==
    /\ view = STORY
    /\ ~isStoryLoading
    /\ ~Truthy(story)
    /\ \E i \in 1..Len(notebook) : notebook[i].id = id
    /\ IF \E i \in 1..Len(selectedStoryWordIds) : selectedStoryWordIds[i] = id
       THEN /\ selectedStoryWordIds' = SelectSeq(selectedStoryWordIds, LAMBDA w : w # id)
            /\ obs' = Quiet("toggleStoryWordSelection")
       ELSE IF Len(selectedStoryWordIds) >= MaxStoryWords
       THEN /\ obs' = [Quiet("toggleStoryWordSelection") EXCEPT !.alerts = 1]
            /\ UNCHANGED selectedStoryWordIds
       ELSE /\ selectedStoryWordIds' = Append(selectedStoryWordIds, id)
            /\ obs' = Quiet("toggleStoryWordSelection")
    /\ UNCHANGED <<cardVars, decodeVars, chatVars, story, isStoryLoading, stories, view, history,
                   searchQuery, loading, currentEntry, notebook, chatHistory,
                   isChatOpen, audioLoadingId, storage, lookups, play,
                   speechVars, now, inserted>>

\* the Generate Story button, disabled while no word is selected, up to
\* the await on generateStory
handleGenerateSelectedStory ==
    /\ view = STORY
    /\ ~isStoryLoading
    /\ ~Truthy(story)
    /\ Len(notebook) > 0
    /\ Len(selectedStoryWordIds) > 0
    /\ isStoryLoading' = TRUE
    /\ story' = Null
    /\ stories' = BagAdd(stories,
          [entries |-> SelectSeq(notebook, LAMBDA n :
                          \E i \in 1..Len(selectedStoryWordIds) :
                              selectedStoryWordIds[i] = n.id)])
    /\ obs' = Quiet("handleGenerateSelectedStory")
    /\ UNCHANGED <<cardVars, decodeVars, chatVars, selectedStoryWordIds, view, history, searchQuery,
                   loading, currentEntry, notebook, chatHistory, isChatOpen,
                   audioLoadingId, storage, lookups, play, speechVars, now,
                   inserted>>

\* the request of generateStory settles
StoryResponse(req, response) ==
    /\ BagIn(req, stories)
    /\ stories' = BagRemove(stories, req)
    /\ LET res == generateStory(response)
       IN IF res.threw
          THEN /\ obs' = [Quiet("StoryResponse") EXCEPT !.alerts = 1]
               /\ UNCHANGED story
          ELSE /\ story' = res.value
               /\ obs' = Quiet("StoryResponse")
    /\ isStoryLoading' = FALSE
    /\ UNCHANGED <<cardVars, decodeVars, chatVars, selectedStoryWordIds, view, history, searchQuery,
                   loading, currentEntry, notebook, chatHistory, isChatOpen,
                   audioLoadingId, storage, lookups, play, speechVars, now,
                   inserted>>

\* a double click on the displayed story
handleTextSelection(selection) ==
    /\ view = STORY
    /\ ~isStoryLoading
    /\ Truthy(story)
    /\ selection \in Selections(story)
    /\ LET text == stripPunctuation(trim(selection))
       IN IF text = ""
          THEN /\ obs' = Quiet("handleTextSelection")
               /\ UNCHANGED <<cardVars, decodeVars, chatVars, storyVars, view, history, searchQuery,
                              loading, currentEntry, notebook, chatHistory,
                              isChatOpen, audioLoadingId, storage, lookups,
                              play, speechVars, now, inserted>>
          ELSE performLookupCall("handleTextSelection", text)

\* the entry of an earlier session, as a lookup of "brick" assembled it
SavedEntry == AssembleEntry("brick", FullData, Missing, 0)

\* the App started over a localStorage in which an earlier session has
\* left a notebook of one entry
InitStory ==
    /\ view = ONBOARDING
    /\ history = <<>>
    /\ searchQuery = ""
    /\ loading = FALSE
    /\ currentEntry = NoEntry
    /\ storage = persistEffect(<<>>, <<SavedEntry>>)
    /\ notebook = initialNotebook(storage)
    /\ chatHistory = <<>>
    /\ isChatOpen = FALSE
    /\ chatInput = ""
    /\ chats = EmptyBag
    /\ story = Null
    /\ isStoryLoading = FALSE
    /\ selectedStoryWordIds = <<>>
    /\ stories = EmptyBag
    /\ audioLoadingId = NoAudio
    /\ lookups = EmptyBag
    /\ play = NoPlay
    /\ ttsCache = <<>>
    /\ ttsPending = EmptyBag
    /\ ttsRequested = {}
    /\ now = 0
    /\ inserted = <<SavedEntry.id>>
    /\ flashcardIndex = 0
    /\ isFlipped = FALSE
    /\ data = <<>>
    /\ numChannels = 1
    /\ audioBuffer = NoBuffer
    /\ obs = Quiet("init")

\* the story flow: a story is made of the notebook's word, and the words
\* of the story are looked up
NextStory ==
    \/ LetsGo
    \/ GoBack
    \/ OpenStory
    \/ resetStory
    \/ \E i \in 1..Len(notebook) : toggleStoryWordSelection(notebook[i].id)
    \/ handleGenerateSelectedStory
    \/ \E req \in BagToSet(stories) : \E r \in StoryResponses : StoryResponse(req, r)
    \/ \E sel \in Selections(story) : handleTextSelection(sel)
    \/ \E l \in LookupRecords : \E r \in TextResponses : TextResponse(l, r)
    \/ \E l \in LookupRecords : \E r \in ImageResponses : ImageResponse(l, r)

SpecStory == InitStory /\ [][NextStory]_vars

(***************************************************************************)
(* The word selection of the story view                                    *)
(***************************************************************************)
\* the notebook an earlier session has left: one word more than a story
\* takes, newest first, saved at the times 0, -1, -2, ...
SavedNotebook ==
    [i \in 1..(MaxStoryWords + 1) |->
        AssembleEntry("brick", FullData, Missing, 1 - i)]

\* the App started over that notebook
InitSelect ==
    /\ view = ONBOARDING
    /\ history = <<>>
    /\ searchQuery = ""
    /\ loading = FALSE
    /\ currentEntry = NoEntry
    /\ storage = persistEffect(<<>>, SavedNotebook)
    /\ notebook = initialNotebook(storage)
    /\ chatHistory = <<>>
    /\ isChatOpen = FALSE
    /\ chatInput = ""
    /\ chats = EmptyBag
    /\ story = Null
    /\ isStoryLoading = FALSE
    /\ selectedStoryWordIds = <<>>
    /\ stories = EmptyBag
    /\ audioLoadingId = NoAudio
    /\ lookups = EmptyBag
    /\ play = NoPlay
    /\ ttsCache = <<>>
    /\ ttsPending = EmptyBag
    /\ ttsRequested = {}
    /\ now = 0
    /\ inserted = [i \in 1..Len(SavedNotebook) |->
                     SavedNotebook[Len(SavedNotebook) + 1 - i].id]
    /\ flashcardIndex = 0
    /\ isFlipped = FALSE
    /\ data = <<>>
    /\ numChannels = 1
    /\ audioBuffer = NoBuffer
    /\ obs = Quiet("init")

\* the story view without the lookups of its words
NextSelect ==
    \/ LetsGo
    \/ GoBack
    \/ OpenStory
    \/ resetStory
    \/ \E i \in 1..Len(notebook) : toggleStoryWordSelection(notebook[i].id)
    \/ handleGenerateSelectedStory
    \/ \E req \in BagToSet(stories) : \E r \in StoryResponses : StoryResponse(req, r)

SpecSelect == InitSelect /\ [][NextSelect]_vars

(***************************************************************************)
(* The chat about the displayed entry                                      *)
(***************************************************************************)
\* what the user types into the chat input; " " is a blank message
ChatInputs == {" ", "formal?"}

\* the outcomes of the request of sendChatMessage: it rejects, or resolves
\* with response.text
ChatResponses ==
    { [ok |-> FALSE, text |-> ""],
      [ok |-> TRUE, text |-> ""],
      [ok |-> TRUE, text |-> "Si."] }

\* sendChatMessage, from the response on: [threw, value]
sendChatMessage(response) ==
    IF ~response.ok
    THEN [threw |-> TRUE, value |-> Null]
    ELSE [threw |-> FALSE,
          value |-> OrElse(response.text, "I couldn't understand that.")]

\* the chat is on the RESULT view of a displayed entry
ChatShown == view = RESULT /\ ~loading /\ currentEntry # NoEntry

\* the chat button: setIsChatOpen(true)
OpenChat ==
    /\ ChatShown
    /\ ~isChatOpen
    /\ isChatOpen' = TRUE
    /\ obs' = Quiet("OpenChat")
    /\ UNCHANGED <<cardVars, decodeVars, chatVars, storyVars, view, history, searchQuery, loading,
                   currentEntry, notebook, chatHistory, audioLoadingId,
                   storage, lookups, play, speechVars, now, inserted>>

\* the close button of the chat: setIsChatOpen(false)
CloseChat ==
    /\ ChatShown
    /\ isChatOpen
    /\ isChatOpen' = FALSE
    /\ obs' = Quiet("CloseChat")
    /\ UNCHANGED <<cardVars, decodeVars, chatVars, storyVars, view, history, searchQuery, loading,
                   currentEntry, notebook, chatHistory, audioLoadingId,
                   storage, lookups, play, speechVars, now, inserted>>

\* the chat input: setChatInput(e.target.value)
TypeChat(text) ==
    /\ ChatShown
    /\ isChatOpen
    /\ chatInput' = text
    /\ obs' = Quiet("TypeChat")
    /\ UNCHANGED <<cardVars, decodeVars, chats, storyVars, view, history, searchQuery, loading,
                   currentEntry, notebook, chatHistory, isChatOpen,
                   audioLoadingId, storage, lookups, play, speechVars, now,
                   inserted>>

\* handleChatSend up to its await on sendChatMessage: the user message is
\* appended and the request is issued (the log it carries goes into the
\* prompt only)
handleChatSend ==
    /\ ChatShown
    /\ isChatOpen
    /\ IF trim(chatInput) = "" \/ currentEntry = NoEntry
       THEN /\ obs' = Quiet("handleChatSend")
            /\ UNCHANGED <<chatHistory, chatInput, chats>>
       ELSE /\ Len(chatHistory) + BagCardinality(chats) + 2 <= MaxChat
            /\ chatHistory' = Append(chatHistory,
                                  [id |-> ToString(now), role |-> "user",
                                   text |-> chatInput])
            /\ chatInput' = ""
            /\ chats' = BagAdd(chats, [newMessage |-> chatInput,
                                       contextEntry |-> currentEntry.id])
            /\ obs' = Quiet("handleChatSend")
    /\ UNCHANGED <<cardVars, decodeVars, storyVars, view, history, searchQuery, loading,
                   currentEntry, notebook, isChatOpen, audioLoadingId,
                   storage, lookups, play, speechVars, now, inserted>>

\* the request of sendChatMessage settles: the reply is appended to the log
\* as it is then, or the rejection is logged to the console
ChatResponse(req, response) ==
    /\ BagIn(req, chats)
    /\ chats' = BagRemove(chats, req)
    /\ LET res == sendChatMessage(response)
       IN IF res.threw
          THEN UNCHANGED chatHistory
          ELSE chatHistory' = Append(chatHistory,
                                  [id |-> ToString(now + 1), role |-> "model",
                                   text |-> res.value])
    /\ obs' = Quiet("ChatResponse")
    /\ UNCHANGED <<cardVars, decodeVars, chatInput, storyVars, view, history, searchQuery, loading,
                   currentEntry, notebook, isChatOpen, audioLoadingId,
                   storage, lookups, play, speechVars, now, inserted>>

\* the chat flow: lookups that display entries, and the chat about them
NextChat ==
    \/ LetsGo
    \/ GoBack
    \/ \E q \in Queries : TypeQuery(q)
    \/ handleSearchSubmit
    \/ \E l \in LookupRecords : \E r \in TextResponses : TextResponse(l, r)
    \/ \E l \in LookupRecords : \E r \in ImageResponses : ImageResponse(l, r)
    \/ OpenChat
    \/ CloseChat
    \/ \E text \in ChatInputs : TypeChat(text)
    \/ handleChatSend
    \/ \E req \in BagToSet(chats) : \E r \in ChatResponses : ChatResponse(req, r)

SpecChat == Init /\ [][NextChat]_vars

(***************************************************************************)
(* decodeAudioData                                                         *)
(***************************************************************************)
\* the byte values payloads are made of: 0x00, 0x7F, 0x80, 0xFF
ByteValues == {0, 127, 128, 255}

\* the Uint8Array values decodeBase64 can return, up to MaxBytes bytes
Payloads == UNION {[1..n -> ByteValues] : n \in 0..MaxBytes}

\* the divisor of channelData[i] = dataInt16[...] / 32768.0
Int16Scale == 32768

\* an element of a Uint16Array view: the two bytes read as an unsigned
\* little-endian number
Uint16At(lo, hi) == lo + 256 * hi

\* an element of the Int16Array view: the two bytes read as a signed
\* (two's complement) little-endian number
Int16At(lo, hi) ==
    IF lo + 256 * hi >= 32768 THEN lo + 256 * hi - 65536 ELSE lo + 256 * hi

\* new Int16Array(data.buffer): a RangeError when the byte length is not a
\* multiple of 2, else the view of byteLength / 2 elements
Int16Array(bytes) ==
    IF Len(bytes) % 2 # 0
    THEN [threw |-> TRUE, value |-> <<>>]
    ELSE [threw |-> FALSE,
          value |-> [i \in 1..(Len(bytes) \div 2) |->
                        Int16At(bytes[2 * i - 1], bytes[2 * i])]]

\* ctx.createBuffer(numberOfChannels, length, sampleRate): length is
\* converted to an unsigned long (a fraction is cut off) and a
\* NotSupportedError is thrown when that is 0; samples start at 0
createBuffer(channels, elements) ==
    IF elements \div channels < 1
    THEN [threw |-> TRUE, length |-> 0]
    ELSE [threw |-> FALSE, length |-> elements \div channels]

\* the catch block of decodeAudioData.  A sample s of channelData stands
\* for the float s / 32768.0, which a Float32Array holds exactly for every
\* 16-bit s.  When frameCount is a fraction the last round of the loop
\* writes past the end of channelData, which is ignored.
fallbackDecode(bytes, channels) ==
    LET dataInt16 == Int16Array(bytes)
        buffer == createBuffer(channels, Len(dataInt16.value))
    IN IF dataInt16.threw
       THEN [NoBuffer EXCEPT !.by = "threw", !.error = "RangeError"]
       ELSE IF buffer.threw
       THEN [NoBuffer EXCEPT !.by = "threw", !.error = "NotSupportedError"]
       ELSE [by |-> "fallback", error |-> "",
             numberOfChannels |-> channels,
             length |-> buffer.length,
             channelData |->
                [channel \in 1..channels |->
                   [i \in 1..buffer.length |->
                      dataInt16.value[(i - 1) * channels + channel]]]]

\* ctx.decodeAudioData(bufferCopy) resolves: the bytes are a container the
\* platform can decode, and its buffer is returned
decodeAudioDataResolves ==
    /\ audioBuffer = NoBuffer
    /\ data # <<>>
    /\ audioBuffer' = [NoBuffer EXCEPT !.by = "container"]
    /\ obs' = Quiet("decodeAudioData")
    /\ UNCHANGED <<cardVars, data, numChannels, chatVars, storyVars, view, history,
                   searchQuery, loading, currentEntry, notebook, chatHistory,
                   isChatOpen, audioLoadingId, storage, lookups, play,
                   speechVars, now, inserted>>

\* ctx.decodeAudioData(bufferCopy) rejects and the catch block runs
decodeAudioDataFallback ==
    /\ audioBuffer = NoBuffer
    /\ audioBuffer' = fallbackDecode(data, numChannels)
    /\ obs' = Quiet("decodeAudioData")
    /\ UNCHANGED <<cardVars, data, numChannels, chatVars, storyVars, view, history,
                   searchQuery, loading, currentEntry, notebook, chatHistory,
                   isChatOpen, audioLoadingId, storage, lookups, play,
                   speechVars, now, inserted>>

\* decodeAudioData is called with some payload and some number of channels
InitDecode ==
    /\ view = ONBOARDING
    /\ history = <<>>
    /\ searchQuery = ""
    /\ loading = FALSE
    /\ currentEntry = NoEntry
    /\ notebook = <<>>
    /\ chatHistory = <<>>
    /\ isChatOpen = FALSE
    /\ chatInput = ""
    /\ chats = EmptyBag
    /\ story = Null
    /\ isStoryLoading = FALSE
    /\ selectedStoryWordIds = <<>>
    /\ stories = EmptyBag
    /\ audioLoadingId = NoAudio
    /\ storage = [lingopop_notebook |-> JSONstringify(<<>>)]
    /\ lookups = EmptyBag
    /\ play = NoPlay
    /\ ttsCache = <<>>
    /\ ttsPending = EmptyBag
    /\ ttsRequested = {}
    /\ now = 0
    /\ inserted = <<>>
    /\ flashcardIndex = 0
    /\ isFlipped = FALSE
    /\ data \in Payloads
    /\ numChannels \in 1..MaxChannels
    /\ audioBuffer = NoBuffer
    /\ obs = Quiet("init")

NextDecode ==
    \/ decodeAudioDataResolves
    \/ decodeAudioDataFallback

SpecDecode == InitDecode /\ [][NextDecode]_vars

(***************************************************************************)
(* The flashcards                                                          *)
(***************************************************************************)
\* the index the right arrow leaves, with <= in place of <
nextIndexOffByOne(i, n) == IF i <= n - 1 THEN i + 1 ELSE 0

\* the index the right arrow leaves: i < notebook.length - 1 ? i + 1 : 0
nextIndex(i, n) == IF i < n - 1 THEN i + 1 ELSE 0

\* the index the left arrow leaves: i > 0 ? i - 1 : notebook.length - 1
previousIndex(i, n) == IF i > 0 THEN i - 1 ELSE n - 1

\* the Flashcards button of the search view
startFlashcards ==
    /\ view = SEARCH
    /\ IF Len(notebook) = 0
       THEN /\ obs' = [Quiet("startFlashcards") EXCEPT !.alerts = 1]
            /\ UNCHANGED <<cardVars, view, history>>
       ELSE /\ Len(history) < MaxHistory
            /\ flashcardIndex' = 0
            /\ isFlipped' = FALSE
            /\ LET nav == navigateTo(FLASHCARDS, view, view, history)
               IN /\ view' = nav.view
                  /\ history' = nav.history
            /\ obs' = Quiet("startFlashcards")
    /\ UNCHANGED <<decodeVars, chatVars, storyVars, searchQuery, loading,
                   currentEntry, notebook, chatHistory, isChatOpen,
                   audioLoadingId, storage, lookups, play, speechVars, now,
                   inserted>>

\* a click on the card: setIsFlipped(!isFlipped)
FlipCard ==
    /\ view = FLASHCARDS
    /\ Len(notebook) > 0
    /\ isFlipped' = ~isFlipped
    /\ obs' = Quiet("FlipCard")
    /\ UNCHANGED <<flashcardIndex, decodeVars, chatVars, storyVars, view,
                   history, searchQuery, loading, currentEntry, notebook,
                   chatHistory, isChatOpen, audioLoadingId, storage, lookups,
                   play, speechVars, now, inserted>>

\* the left arrow under the card
PreviousCard ==
    /\ view = FLASHCARDS
    /\ Len(notebook) > 0
    /\ flashcardIndex' = previousIndex(flashcardIndex, Len(notebook))
    /\ isFlipped' = FALSE
    /\ obs' = Quiet("PreviousCard")
    /\ UNCHANGED <<decodeVars, chatVars, storyVars, view, history, searchQuery,
                   loading, currentEntry, notebook, chatHistory, isChatOpen,
                   audioLoadingId, storage, lookups, play, speechVars, now,
                   inserted>>

\* the right arrow under the card
NextCard ==
    /\ view = FLASHCARDS
    /\ Len(notebook) > 0
    /\ flashcardIndex' = nextIndex(flashcardIndex, Len(notebook))
    /\ isFlipped' = FALSE
    /\ obs' = Quiet("NextCard")
    /\ UNCHANGED <<decodeVars, chatVars, storyVars, view, history, searchQuery,
                   loading, currentEntry, notebook, chatHistory, isChatOpen,
                   audioLoadingId, storage, lookups, play, speechVars, now,
                   inserted>>

\* the lookup and notebook flow with the flashcards
NextCards ==
    \/ LetsGo
    \/ GoBack
    \/ GoHome
    \/ TypeQuery("brick")
    \/ handleSearchSubmit
    \/ \E l \in LookupRecords : \E r \in TextResponses : TextResponse(l, r)
    \/ \E l \in LookupRecords : \E r \in ImageResponses : ImageResponse(l, r)
    \/ addToNotebook
    \/ Tick
    \/ startFlashcards
    \/ FlipCard
    \/ PreviousCard
    \/ NextCard

SpecCards == Init /\ [][NextCards]_vars

(***************************************************************************)
(* Properties of the notebook                                              *)
(***************************************************************************)
\* the ids of a notebook, in its order
Ids(book) == [i \in 1..Len(book) |-> book[i].id]

\* the sequence s back to front
Reverse(s) == [i \in 1..Len(s) |-> s[Len(s) + 1 - i]]

\* two notebooks hold the same entries in the same order: every property
\* reads the same in both
SameNotebook(a, b) ==
    /\ Len(a) = Len(b)
    /\ \A i \in 1..Len(a) : \A j \in 1..Len(EntryKeys) :
          Get(a[i], EntryKeys[j]) = Get(b[i], EntryKeys[j])

\* the number of entries of the notebook with this id
Copies(book, id) == Cardinality({i \in 1..Len(book) : book[i].id = id})

\* C1: addToNotebook called while the notebook holds an entry with the id
\* of the current entry leaves the notebook as it is, and after any
\* addToNotebook the notebook holds exactly one entry with that id (so add
\* followed by add leaves one copy).
C1_DuplicateAddIsNoOp ==
    [][obs'.act = "addToNotebook" =>
          /\ InNotebook(notebook, currentEntry) => notebook' = notebook
          /\ Copies(notebook', currentEntry.id) = 1]_vars

\* addToNotebook has run a second time for an entry the notebook holds: it
\* did not call setNotebook
C1_Witness ==
    /\ obs.act = "addToNotebook"
    /\ ~obs.stored
    /\ InNotebook(notebook, currentEntry)

\* C2: the notebook holds the entries added with pairwise distinct ids,
\* once each, most recently added first: its ids are the insertion log
\* read backwards, and its length is the number of insertions.
C2_ReverseInsertionOrder ==
    /\ Ids(notebook) = Reverse(inserted)
    /\ Len(notebook) = Len(inserted)
    /\ \A i, j \in 1..Len(inserted) : i # j => inserted[i] # inserted[j]

\* two entries with different ids have been added, the second on top
C2_Witness ==
    /\ obs.act = "addToNotebook"
    /\ Len(notebook) >= 2
    /\ notebook[1] = currentEntry
    /\ inserted[Len(inserted)] = currentEntry.id

\* C3: the slot lingopop_notebook always holds the text of the whole
\* current notebook, every step that changes the notebook writes it, and
\* the notebook a restart loads is the notebook as it was.
C3_SnapshotPersisted ==
    /\ [](/\ StorageKey \in DOMAIN storage
          /\ storage[StorageKey] = JSONstringify(notebook)
          /\ DOMAIN storage = {StorageKey})
    /\ [][notebook' # notebook => obs'.stored]_vars
    /\ [][obs'.act = "Reload" => SameNotebook(notebook', notebook)]_vars

\* a restart has loaded a notebook of two entries, one of them stored
\* without its undefined imageUrl
C3_Witness ==
    /\ obs.act = "Reload"
    /\ Len(notebook) >= 2
    /\ \E i \in 1..Len(notebook) : "imageUrl" \notin DOMAIN notebook[i]
    /\ \E i \in 1..Len(notebook) : "imageUrl" \in DOMAIN notebook[i]

(***************************************************************************)
(* Properties of generateSpeech                                            *)
(***************************************************************************)
\* the remote speech requests in flight for this text
InFlight(pending, text) ==
    {req \in BagToSet(pending) : req.text = text}

\* the number of remote speech requests in flight for this text
InFlightCount(pending, text) ==
    LET reqs == InFlight(pending, text)
        RECURSIVE Sum(_)
        Sum(S) == IF S = {} THEN 0
                  ELSE LET r == CHOOSE x \in S : TRUE
                       IN CopiesIn(r, pending) + Sum(S \ {r})
    IN Sum(reqs)

\* the step was a call of generateSpeech with a non-empty text, up to its
\* return or its await
SpeechCallStep == obs'.speech.phase = "call" /\ obs'.speech.text # ""

\* the step was the rest of a generateSpeech call whose remote request was
\* rejected or came back without audio data
SpeechFailureStep ==
    /\ obs'.speech.phase = "resume"
    /\ ~obs'.speech.response.ok \/ ~Truthy(obs'.speech.response.data)

\* C4 as claimed: of the calls with one text only the first issues a remote
\* request. A call with a text never requested before issues one, and a
\* call with a text that is cached or has a request in flight issues none
\* (a text whose earlier request failed is left to C7).
C4_Original ==
    [][SpeechCallStep =>
          /\ obs'.speech.text \notin ttsRequested => obs'.speech.suspends
          /\ (\/ obs'.speech.text \in DOMAIN ttsCache
              \/ InFlight(ttsPending, obs'.speech.text) # {})
                => ~obs'.speech.suspends]_vars

\* C4: a call of generateSpeech with a non-empty text issues a remote
\* request exactly when the cache does not hold the text at the time of the
\* call, and then exactly one; a text once cached stays cached, and only a
\* response with audio data caches one. So two calls with one text make one
\* request when the first has returned audio before the second starts, and
\* two when the second starts while the first is in flight.
C4_OneRequestPerUncachedCall ==
    /\ [][SpeechCallStep =>
             /\ obs'.speech.suspends <=> obs'.speech.text \notin DOMAIN ttsCache
             /\ BagCardinality(ttsPending') = BagCardinality(ttsPending)
                   + (IF obs'.speech.suspends THEN 1 ELSE 0)
             /\ InFlightCount(ttsPending', obs'.speech.text)
                   = InFlightCount(ttsPending, obs'.speech.text)
                     + (IF obs'.speech.suspends THEN 1 ELSE 0)]_vars
    /\ [][DOMAIN ttsCache \subseteq DOMAIN ttsCache']_vars
    /\ [][\A t \in DOMAIN ttsCache' \ DOMAIN ttsCache :
             /\ obs'.speech.phase = "resume"
             /\ obs'.speech.text = t
             /\ obs'.speech.response.ok
             /\ ttsCache'[t] = obs'.speech.response.data]_vars

\* a call has issued a second request for a text while the first request
\* for it was in flight
C4_Witness ==
    /\ obs.speech.phase = "call"
    /\ obs.speech.suspends
    /\ InFlightCount(ttsPending, obs.speech.text) = 2

\* C5: a call of generateSpeech with a text the cache holds returns the
\* cached payload at once: no remote request is issued and the cache is as
\* it was.
C5_CacheHit ==
    [][(SpeechCallStep /\ obs'.speech.text \in DOMAIN ttsCache) =>
          /\ obs'.speech.ret = ttsCache[obs'.speech.text]
          /\ ~obs'.speech.suspends
          /\ ~obs'.speech.threw
          /\ ttsCache' = ttsCache
          /\ ttsPending' = ttsPending]_vars

\* playAudio has called generateSpeech for a text that the pre-fetch had
\* cached, and got the payload
C5_Witness ==
    /\ obs.act = "playAudio"
    /\ obs.speech.phase = "call"
    /\ ~obs.speech.suspends
    /\ obs.speech.text \in DOMAIN ttsCache
    /\ obs.speech.ret = ttsCache[obs.speech.text]
    /\ Truthy(obs.speech.ret)

\* C6: generateSpeech("") returns null before it looks at the cache: the
\* cache is neither read nor written and no remote request is issued.
C6_EmptyText ==
    [][(obs'.speech.phase = "call" /\ obs'.speech.text = "") =>
          /\ obs'.speech.ret = Null
          /\ ~obs'.speech.readsCache
          /\ ~obs'.speech.suspends
          /\ ~obs'.speech.threw
          /\ ttsCache' = ttsCache
          /\ ttsPending' = ttsPending
          /\ ttsRequested' = ttsRequested]_vars

\* generateSpeech("") has been called while the cache held a text and a
\* request was in flight
C6_Witness ==
    /\ obs.speech.phase = "call"
    /\ obs.speech.text = ""
    /\ DOMAIN ttsCache # {}
    /\ ttsPending # EmptyBag

\* C7: when the remote request is rejected or answers without audio data,
\* generateSpeech returns null and raises nothing, and the cache is as it
\* was; a later call with a text requested before and not cached issues a
\* new remote request.
C7_SoftFailure ==
    /\ [][SpeechFailureStep =>
             /\ obs'.speech.ret = Null
             /\ ~obs'.speech.threw
             /\ ttsCache' = ttsCache]_vars
    /\ [][(/\ SpeechCallStep
            /\ obs'.speech.text \in ttsRequested
            /\ obs'.speech.text \notin DOMAIN ttsCache)
             => /\ obs'.speech.suspends
                /\ BagCardinality(ttsPending') = BagCardinality(ttsPending) + 1]_vars

\* after a request for a text was rejected, playAudio has called
\* generateSpeech with that text again: a new request is the only one in
\* flight
C7_Witness ==
    /\ obs.act = "playAudio"
    /\ obs.speech.phase = "call"
    /\ obs.speech.suspends
    /\ obs.speech.text = currentEntry.translatedTerm   \* pre-fetched before
    /\ ttsCache = <<>>
    /\ InFlightCount(ttsPending, obs.speech.text) = 1
    /\ play = [pc |-> "speech"]
    /\ audioLoadingId # NoAudio

(***************************************************************************)
(* Properties of performLookup                                             *)
(***************************************************************************)
\* the image request was rejected, or its response holds no part with
\* inline data
ImageFailed(response) ==
    \/ ~response.ok
    \/ \A i \in 1..Len(response.parts) : "inlineData" \notin DOMAIN response.parts[i]

\* the text request was rejected, or its response is empty, or what is left
\* of its text without fences and surrounding white space is not the text
\* of a JSON object
TextFailed(response) ==
    \/ ~response.ok
    \/ response.text = <<>>
    \/ \A k \in DOMAIN JsonObjects : cleanJsonText(response.text) # <<k>>

\* C8: when the image request of a lookup is rejected or answers without an
\* image, the lookup ends well: the current entry is a new entry of the
\* term without imageUrl, whose text fields are non-empty strings, the
\* RESULT view shows it, nothing is reported and loading is false.
C8_ImageFailureKeepsEntry ==
    [][\A l \in LookupRecords : \A r \in ImageResponses :
          (ImageResponse(l, r) /\ ImageFailed(r)) =>
             /\ currentEntry' # NoEntry
             /\ Get(currentEntry', "imageUrl") = Missing
             /\ currentEntry'.term = l.term
             /\ currentEntry'.id = ToString(now)
             /\ \A k \in {"term", "translatedTerm", "definitionTarget",
                           "definitionNative", "usageNote"} :
                   Truthy(currentEntry'[k])
             /\ currentEntry'.examples = ListOrEmpty(l.textData, "examples")
             /\ currentEntry'.scenario = ListOrEmpty(l.textData, "scenario")
             /\ view' = RESULT
             /\ obs'.alerts = 0
             /\ ~loading']_vars

\* a lookup whose image step failed has replaced an entry that had an
\* image by one without
C8_Witness ==
    /\ obs.act = "ImageResponse"
    /\ obs.alerts = 0
    /\ view = RESULT
    /\ currentEntry # NoEntry
    /\ Get(currentEntry, "imageUrl") = Missing
    /\ currentEntry.translatedTerm = FullData.translatedTerm
    /\ \E i \in 1..Len(notebook) : Truthy(Get(notebook[i], "imageUrl"))

C10_Original ==
    currentEntry # NoEntry =>
        /\ Len(currentEntry.examples) = 2
        /\ Len(currentEntry.scenario) \in {3, 4}

(***************************************************************************)
(* Properties of the requests of a lookup                                  *)
(***************************************************************************)
\* the number of suspended performLookup calls that wait for their text
\* request (pc = "text") or for their image request (pc = "image")
Waiting(pending, pc) ==
    BagCardinality([x \in {y \in BagToSet(pending) : y.pc = pc} |-> pending[x]])

\* C11: the image request of a lookup is issued in the step in which its
\* text request has returned an object, never with it or before it: text
\* requests are issued only by a starting performLookup, one at a time; an
\* image request is issued only by the step that takes a successful text
\* response, which leaves one text request less in flight; and the current
\* entry is replaced only by the step that takes an image response.
C11_TextThenImage ==
    /\ [][Waiting(lookups', "text") > Waiting(lookups, "text") =>
             /\ obs'.act \in {"handleSearchSubmit", "handleTextSelection"}
             /\ Waiting(lookups', "text") = Waiting(lookups, "text") + 1
             /\ Waiting(lookups', "image") = Waiting(lookups, "image")]_vars
    /\ [][Waiting(lookups', "image") > Waiting(lookups, "image") =>
             /\ obs'.act = "TextResponse"
             /\ obs'.alerts = 0
             /\ Waiting(lookups', "image") = Waiting(lookups, "image") + 1
             /\ Waiting(lookups', "text") = Waiting(lookups, "text") - 1]_vars
    /\ [][currentEntry' # currentEntry =>
             /\ obs'.act = "ImageResponse"
             /\ Waiting(lookups', "image") = Waiting(lookups, "image") - 1
             /\ Waiting(lookups', "text") = Waiting(lookups, "text")]_vars

\* a lookup has gone through its text step and its image step and set the
\* current entry while another lookup waits for its text
C11_Witness ==
    /\ obs.act = "ImageResponse"
    /\ obs.alerts = 0
    /\ currentEntry # NoEntry
    /\ currentEntry.term = "muro"
    /\ Waiting(lookups, "text") = 1

\* C12 as claimed: a lookup that a later lookup has followed while it was
\* in flight does not replace the current entry when its image response
\* arrives.
C12_Original ==
    [][\A l \in LookupRecords : \A r \in ImageResponses :
          (ImageResponse(l, r) /\ l.stale) => currentEntry' = currentEntry]_vars

(***************************************************************************)
(* Properties of playAudio                                                 *)
(***************************************************************************)
\* the remote speech requests in flight that playAudio issued
PlayRequests(pending) ==
    BagCardinality([x \in {y \in BagToSet(pending) : y.caller = "play"} |-> pending[x]])

\* the state of the App other than audioLoadingId
AppState ==
    <<view, history, searchQuery, loading, currentEntry, notebook,
      chatHistory, isChatOpen, chatInput, story, isStoryLoading,
      selectedStoryWordIds, storage>>

\* C13: playAudio called while audioLoadingId is set returns at once: it
\* does not call generateSpeech, issues no request, starts no playback and
\* leaves audioLoadingId as it is; so at most one playAudio call is
\* suspended, with at most one speech request of its own in flight, and one
\* is suspended exactly while audioLoadingId is set.
C13_OnePlaybackPending ==
    /\ [][(obs'.act = "playAudio" /\ audioLoadingId # NoAudio) =>
             /\ obs'.speech = NoSpeech
             /\ UNCHANGED <<audioLoadingId, play, ttsPending, ttsCache, ttsRequested>>]_vars
    /\ [](/\ PlayRequests(ttsPending) <= 1
          /\ PlayRequests(ttsPending) = 1 <=> play = [pc |-> "speech"]
          /\ play = NoPlay <=> audioLoadingId = NoAudio)

\* a speaker button has been pressed while the speech request of another
\* button was in flight
C13_Witness ==
    /\ obs.act = "playAudio"
    /\ obs.speech = NoSpeech
    /\ audioLoadingId # NoAudio
    /\ currentEntry # NoEntry
    /\ audioLoadingId # "main-" \o currentEntry.id
    /\ play = [pc |-> "speech"]
    /\ PlayRequests(ttsPending) = 1

\* C14: a playAudio call that was accepted ends with audioLoadingId null,
\* whether the speech request failed, gave no audio, or the playback
\* threw; the step raises no alert and changes no other state of the App,
\* a speech request without audio ends it at once, and a failure leaves
\* the cache as it was.
C14_PlaybackFailureAbsorbed ==
    /\ [][(play # NoPlay /\ play' = NoPlay) =>
             /\ obs'.act \in {"SpeechResponse", "PlaybackSettles"}
             /\ audioLoadingId' = NoAudio
             /\ obs'.alerts = 0
             /\ AppState' = AppState
             /\ (obs'.act = "SpeechResponse") =>
                   /\ obs'.speech.phase = "resume"
                   /\ ~Truthy(obs'.speech.ret)
                   /\ ~obs'.speech.threw
                   /\ ttsCache' = ttsCache
             /\ (obs'.act = "PlaybackSettles") => speechVars' = speechVars]_vars
    /\ [][(/\ obs'.act = "SpeechResponse"
            /\ play = [pc |-> "speech"]
            /\ PlayRequests(ttsPending') < PlayRequests(ttsPending)
            /\ ~Truthy(obs'.speech.ret)) => play' = NoPlay]_vars
    /\ [][obs'.playback = "threw" => (play' = NoPlay /\ audioLoadingId' = NoAudio)]_vars

\* the playback of an accepted playAudio call has thrown, and the call has
\* ended
C14_Witness ==
    /\ obs.act = "PlaybackSettles"
    /\ obs.playback = "threw"
    /\ obs.alerts = 0
    /\ audioLoadingId = NoAudio
    /\ play = NoPlay

(***************************************************************************)
(* Properties of the chat log                                              *)
(***************************************************************************)
\* C15: a step changes the chat log only by appending one message to it or
\* by emptying it, and every performLookup that starts a lookup (its term
\* is not blank) leaves the log empty and the chat closed.
C15_ChatLogAppendOrClear ==
    /\ [][chatHistory' # chatHistory =>
             \/ chatHistory' = <<>>
             \/ /\ Len(chatHistory') = Len(chatHistory) + 1
                /\ SubSeq(chatHistory', 1, Len(chatHistory)) = chatHistory]_vars
    /\ [][Waiting(lookups', "text") > Waiting(lookups, "text") =>
             (chatHistory' = <<>> /\ ~isChatOpen')]_vars
    /\ [][(chatHistory # <<>> /\ chatHistory' = <<>>) =>
             Waiting(lookups', "text") > Waiting(lookups, "text")]_vars

\* a lookup has started and emptied the log while the reply to a chat
\* message was still awaited
C15_Witness ==
    /\ obs.act = "handleSearchSubmit"
    /\ Waiting(lookups, "text") = 1
    /\ chatHistory = <<>>
    /\ chats # EmptyBag

(***************************************************************************)
(* Properties of the entries                                               *)
(***************************************************************************)
\* the step before this one was the end of a lookup that set the current
\* entry
EntryCreated == obs.act = "ImageResponse" /\ obs.alerts = 0

\* C16 as claimed, for two lookups that end one right after the other: the
\* entry of the second has another id than the entry of the first.
C16_Original ==
    [][(EntryCreated /\ EntryCreated') => currentEntry'.id # currentEntry.id]_vars

\* the value of field k in the entry assembled from the object d, when an
\* absent field gets the default and a present one is copied
CopiedOrDefault(d, k, default) == IF k \in DOMAIN d THEN d[k] ELSE default

\* the value of field k in the entry assembled from the object d, when an
\* absent or empty field gets the default and any other is copied
NonEmptyOrDefault(d, k, default) ==
    IF k \in DOMAIN d /\ d[k] # "" THEN d[k] ELSE default

\* C17 as claimed: in the entry a lookup assembles, every text field that
\* the response holds is copied unchanged, a missing definition is
\* "Definition not found" and a missing usage note is
\* "No usage note available".
C17_Original ==
    [][\A l \in LookupRecords : \A r \in ImageResponses :
          ImageResponse(l, r) =>
             /\ currentEntry'.definitionTarget
                   = CopiedOrDefault(l.textData, "definitionTarget", "Definition not found")
             /\ currentEntry'.definitionNative
                   = CopiedOrDefault(l.textData, "definitionNative", "Definition not found")
             /\ currentEntry'.usageNote
                   = CopiedOrDefault(l.textData, "usageNote", "No usage note available")
             /\ "translatedTerm" \in DOMAIN l.textData
                   => currentEntry'.translatedTerm = l.textData.translatedTerm
             /\ "examples" \in DOMAIN l.textData
                   => currentEntry'.examples = l.textData.examples
             /\ "scenario" \in DOMAIN l.textData
                   => currentEntry'.scenario = l.textData.scenario]_vars

\* C17: in the entry a lookup assembles, a definition that is missing or
\* empty in the response is "Definition not found", a usage note that is
\* missing or empty is "No usage note available." (with the full stop), a
\* translated term that is missing or empty is the term looked up, a
\* missing list of examples or scenario lines is the empty list, and every
\* other field of the response is copied unchanged.
C17_Placeholders ==
    [][\A l \in LookupRecords : \A r \in ImageResponses :
          ImageResponse(l, r) =>
             /\ currentEntry'.definitionTarget
                   = NonEmptyOrDefault(l.textData, "definitionTarget", "Definition not found")
             /\ currentEntry'.definitionNative
                   = NonEmptyOrDefault(l.textData, "definitionNative", "Definition not found")
             /\ currentEntry'.usageNote
                   = NonEmptyOrDefault(l.textData, "usageNote", "No usage note available.")
             /\ currentEntry'.translatedTerm
                   = NonEmptyOrDefault(l.textData, "translatedTerm", l.term)
             /\ currentEntry'.examples = CopiedOrDefault(l.textData, "examples", <<>>)
             /\ currentEntry'.scenario = CopiedOrDefault(l.textData, "scenario", <<>>)
             /\ currentEntry'.term = l.term]_vars

\* a lookup has assembled an entry from a response with an empty
\* definition and without translated term, target definition and usage note
C17_Witness ==
    /\ EntryCreated
    /\ currentEntry # NoEntry
    /\ currentEntry.translatedTerm = currentEntry.term
    /\ currentEntry.definitionTarget = "Definition not found"
    /\ currentEntry.definitionNative = "Definition not found"
    /\ currentEntry.usageNote = "No usage note available."
    /\ Len(currentEntry.examples) = 1
    /\ currentEntry.scenario = <<>>

\* every property of the entry a reads the same in the entry b
SameEntry(a, b) ==
    \A j \in 1..Len(EntryKeys) : Get(a, EntryKeys[j]) = Get(b, EntryKeys[j])

\* C19: no step removes or changes an entry of the notebook or reorders
\* the entries: the notebook after a step ends with the notebook before
\* it, entry by entry and property by property, so its length never
\* decreases.
C19_EntriesKept ==
    [][/\ Len(notebook') >= Len(notebook)
       /\ \A i \in 1..Len(notebook) :
             SameEntry(notebook'[i + Len(notebook') - Len(notebook)], notebook[i])]_vars

\* a second entry has been added above an entry that the notebook held
\* through a restart (it was read back without its undefined imageUrl):
\* the older entry is still there, below the new one
C19_Witness ==
    /\ obs.act = "addToNotebook"
    /\ obs.stored
    /\ Len(notebook) = 2
    /\ notebook[2].id = inserted[1]
    /\ "imageUrl" \notin DOMAIN notebook[2]
    /\ notebook[1] = currentEntry

\* C20: performLookup called with a term that is empty after trim() issues
\* no request and changes no state: loading, the chat log, the chat-open
\* flag, the search query, the current entry, the view and the history
\* are as before, and so are the requests in flight.
C20_BlankLookupIsNoOp ==
    [][(obs'.act = "handleSearchSubmit" /\ trim(searchQuery) = "") =>
          /\ UNCHANGED <<loading, chatHistory, isChatOpen, searchQuery,
                         currentEntry, view, history>>
          /\ UNCHANGED <<lookups, chats, stories, play, speechVars>>
          /\ UNCHANGED <<notebook, storage, audioLoadingId>>]_vars

\* the search form was submitted with a query of blanks while an entry and
\* its chat log from an earlier lookup were in place: both are still there
C20_Witness ==
    /\ obs.act = "handleSearchSubmit"
    /\ searchQuery # ""
    /\ trim(searchQuery) = ""
    /\ ~loading
    /\ lookups = EmptyBag
    /\ currentEntry # NoEntry
    /\ chatHistory # <<>>

\* the signed 16-bit little-endian number at element k (from 1) of a payload
SampleAt(bytes, k) ==
    LET u == bytes[2 * k - 1] + 256 * bytes[2 * k]
    IN IF u < 32768 THEN u ELSE u - 65536

\* every sample of the buffer, as a float s / 32768.0, lies in [-1, 1]
SamplesInRange(b) ==
    \A channel \in 1..b.numberOfChannels : \A i \in 1..b.length :
       /\ b.channelData[channel][i] >= -Int16Scale
       /\ b.channelData[channel][i] <= Int16Scale

\* C18 as claimed: when the container decode fails, the fallback returns,
\* for every payload length (odd ones included) and channel count, a
\* buffer of exactly byteLength/2/channels frames with every sample in
\* [-1, 1].
C18_Original ==
    audioBuffer.by \in {"fallback", "threw"} =>
       /\ audioBuffer.by = "fallback"
       /\ audioBuffer.length * 2 * numChannels = Len(data)
       /\ SamplesInRange(audioBuffer)

\* C18: when the container decode fails, the fallback throws a RangeError
\* for a payload of odd byte length and a NotSupportedError for a payload
\* of fewer than 2 * channels bytes; for any other payload it returns a
\* buffer of floor(byteLength / 2 / channels) frames per channel, in which
\* sample i of channel c is the signed 16-bit little-endian number at
\* element i * channels + c of the payload divided by 32768, hence in
\* [-1, 1); elements after the last whole frame are dropped.
C18_FallbackDecode ==
    audioBuffer.by \in {"fallback", "threw"} =>
       IF Len(data) % 2 = 1
       THEN audioBuffer.by = "threw" /\ audioBuffer.error = "RangeError"
       ELSE IF Len(data) < 2 * numChannels
       THEN audioBuffer.by = "threw" /\ audioBuffer.error = "NotSupportedError"
       ELSE /\ audioBuffer.by = "fallback"
            /\ audioBuffer.numberOfChannels = numChannels
            /\ audioBuffer.length = (Len(data) \div 2) \div numChannels
            /\ \A channel \in 1..numChannels : \A i \in 1..audioBuffer.length :
                  /\ audioBuffer.channelData[channel][i]
                        = SampleAt(data, (i - 1) * numChannels + channel)
                  /\ audioBuffer.channelData[channel][i] >= -Int16Scale
                  /\ audioBuffer.channelData[channel][i] < Int16Scale

\* a payload of three 16-bit elements was decoded as two channels: one
\* frame, holding the lowest sample (-1) and the highest (32767/32768);
\* the third element was dropped
C18_Witness ==
    /\ audioBuffer.by = "fallback"
    /\ Len(data) = 6
    /\ numChannels = 2
    /\ audioBuffer.length = 1
    /\ audioBuffer.channelData[1][1] = -32768
    /\ audioBuffer.channelData[2][1] = 32767

\* the id occurs in the sequence of ids
Selected(ids, id) == \E i \in 1..Len(ids) : ids[i] = id

\* C21: the story selection never holds more than 5 ids nor an id twice;
\* toggling a selected id removes it and nothing else, toggling an
\* unselected id adds it and nothing else when fewer than 5 are selected,
\* and leaves the selection as it is when 5 are selected.
C21_SelectionBounded ==
    /\ [](/\ Len(selectedStoryWordIds) <= 5
          /\ \A i, j \in 1..Len(selectedStoryWordIds) :
                i # j => selectedStoryWordIds[i] # selectedStoryWordIds[j])
    /\ [][\A k \in 1..Len(notebook) :
            toggleStoryWordSelection(notebook[k].id) =>
               LET id == notebook[k].id
                   before == {selectedStoryWordIds[i] : i \in 1..Len(selectedStoryWordIds)}
                   after == {selectedStoryWordIds'[i] : i \in 1..Len(selectedStoryWordIds')}
               IN IF id \in before THEN after = before \ {id}
                  ELSE IF Len(selectedStoryWordIds) < 5 THEN after = before \cup {id}
                  ELSE selectedStoryWordIds' = selectedStoryWordIds]_vars

\* a sixth word was clicked while five were selected: the alert was shown
\* and the five are still selected
C21_Witness ==
    /\ obs.act = "toggleStoryWordSelection"
    /\ obs.alerts = 1
    /\ Len(selectedStoryWordIds) = 5
    /\ Len(notebook) > 5

\* C22: whenever the view is FLASHCARDS the index is that of a notebook
\* entry, 0 <= flashcardIndex < notebook.length; startFlashcards leaves the
\* view as it is when the notebook is empty and enters it at index 0
\* otherwise; next wraps from the last card to 0 and previous from card 0
\* to the last card.
C22_IndexInRange ==
    /\ [](view = FLASHCARDS =>
             /\ 0 <= flashcardIndex
             /\ flashcardIndex < Len(notebook))
    /\ [][obs'.act = "startFlashcards" =>
             IF Len(notebook) = 0
             THEN view' = view /\ view' # FLASHCARDS
             ELSE view' = FLASHCARDS /\ flashcardIndex' = 0]_vars
    /\ [][obs'.act = "NextCard" =>
             flashcardIndex' = IF flashcardIndex = Len(notebook) - 1
                               THEN 0 ELSE flashcardIndex + 1]_vars
    /\ [][obs'.act = "PreviousCard" =>
             flashcardIndex' = IF flashcardIndex = 0
                               THEN Len(notebook) - 1 ELSE flashcardIndex - 1]_vars

\* the left arrow was used on card 0 of a notebook of two entries: the
\* last card is shown
C22_Witness ==
    /\ view = FLASHCARDS
    /\ obs.act = "PreviousCard"
    /\ Len(notebook) = 2
    /\ flashcardIndex = 1

\* C23: loading is true in every state in which a lookup is in flight,
\* overlapping lookups included, and a step makes it false only when it
\* leaves no lookup in flight.
C23_Original ==
    /\ [](lookups # EmptyBag => loading)
    /\ [][(loading /\ ~loading') => lookups' = EmptyBag]_vars

\* C24: whenever a step pushes a view on the history stack, the view
\* pushed is the view that was displayed before the step, so that the next
\* goBack returns to it; also when the step is the completion of a lookup
\* during which the user has moved to another view.
C24_Original ==
    [][Len(history') = Len(history) + 1 =>
          /\ history'[Len(history')] = view
          /\ goBackResult(view', history').view = view]_vars

\* C25: every model message of the chat log comes right after a user
\* message (the two roles alternate, also when a second question is sent
\* before the first reply arrives), and a reply is appended only to a log
\* that holds the question it answers (never to the log of a later lookup).
C25_Original ==
    /\ [](\A i \in 1..Len(chatHistory) :
             chatHistory[i].role = "model" =>
                i > 1 /\ chatHistory[i - 1].role = "user")
    /\ [][\A req \in BagToSet(chats) : \A r \in ChatResponses :
            (ChatResponse(req, r) /\ chatHistory' # chatHistory) =>
               \E i \in 1..Len(chatHistory) :
                  /\ chatHistory[i].role = "user"
                  /\ chatHistory[i].text = req.newMessage]_vars

====
